---- MODULE Spec2Model ----
(***************************************************************************)
(* Verification model of the EstudioWeb fashion-photography tool.          *)
(*                                                                         *)
(* Several state machines share this module, each with a specification:    *)
(*   Spec         the batch orchestrator (BatchProcessor.tsx): processQueue,*)
(*                processItem, cancellation and single-item processing      *)
(*   SpecFair     Spec with weak fairness on the settling of pending awaits *)
(*   SpecSettings the per-item settings cascade of processItem              *)
(*   SpecUpload   handleFiles: grouping of uploaded files by inferred SKU   *)
(*   SpecCanvas   the masking canvas (MaskingCanvas) with the editor's      *)
(*                selection it reports to                                   *)
(*   SpecEditor   the single-image editor: selection, retouch, crop, resize *)
(*   SpecGallery  the gallery backend (gallery.controller.ts) and its client*)
(*   SpecAuth     the middleware stack of the backend: authMiddleware,      *)
(*                adminMiddleware and the controllers behind them           *)
(*   SpecResponse handleApiResponse of geminiService                        *)
(*   SpecCalc     calculateCost of costService                              *)
(*   SpecService  the generation operations of geminiService and the cost   *)
(*                records they log                                          *)
(*   SpecSheet    handleExcelUpload: the queue re-evaluated against a       *)
(*                spreadsheet, and the notes that reach processItem         *)
(*   SpecFolders  the brand folders that the processItem runs of a batch    *)
(*                look up, create and store their results in                *)
(*   SpecFiles    getAllFilesController: the all-files listing              *)
(***************************************************************************)
EXTENDS Integers, Sequences, FiniteSets, TLC

(***************************************************************************)
(* Bounds of the model and constants of the program.                       *)
(***************************************************************************)
CONCURRENCY_LIMIT == 3

NItems == 4

MaxFiles == 2

MaxViews == 2

MaxBatches == 2

\* clicks on 'Iniciar Processamento' and on the 'Gerar' button of an item
MaxStarts == 2

\* a second start is explored for queues of at most this many items
MaxRestartItems == 2

\* a start is explored while at most this many earlier runs are pending
MaxStale == 1

ItemIds == 1..NItems

\* availableFiles.length of the queue items: odd items were uploaded with
\* MaxFiles photos, even items with one
Files(i) == IF i % 2 = 1 THEN MaxFiles ELSE 1

Min(a, b) == IF a < b THEN a ELSE b

(***************************************************************************)
(* State of the batch orchestrator.                                        *)
(***************************************************************************)
VARIABLES
    queue,                \* the queue items, [status, resultFiles, error] each
    nviews,               \* number of views selected for generation
    isProcessing,         \* UI state: a batch is running
    isBatchCancelled,     \* ref isBatchCancelled.current
    cancelledSingleItems, \* ref cancelledSingleItems.current
    batches,              \* the processQueue runs, in the order they started;
                          \* cancelled: the batch was cancelled during the run,
                          \* itemCancelled: an item was cancelled during the run,
                          \* or the flag of a cancelled item was set at its start
    runs,                 \* the processItem runs that have not returned yet
    singles               \* number of handleProcessSingleItem calls so far

batchVars == <<queue, nviews, isProcessing, isBatchCancelled,
               cancelledSingleItems, batches, runs, singles>>

(***************************************************************************)
(* State of the settings cascade: the global settings, one queue item with *)
(* its overrides and its spreadsheet row, and the settings processItem used.*)
(***************************************************************************)
VARIABLES
    modelGender,          \* global setting: 'male' | 'female'
    modelAge,             \* global setting: the age of each gender
    itemSettings,         \* item.modelGender and item.modelAge
    metadata,             \* item.metadata: the row of the item, header -> cell
    used                  \* <<>>, or the settings the last processItem used

settingsVars == <<modelGender, modelAge, itemSettings, metadata, used>>

(***************************************************************************)
(* State of the upload: the FileList of the last handleFiles call and the  *)
(* length the queue had before it.                                         *)
(***************************************************************************)
VARIABLES uploaded

uploadVars == <<uploaded>>

(***************************************************************************)
(* State of the image editor: the refs of the masking canvas, the pointers *)
(* on it, the selection of the editor and its operations.                  *)
(***************************************************************************)
VARIABLES
    dragStartInfo,        \* ref of MaskingCanvas: where the pointer was pressed
    isDrawing,            \* ref of MaskingCanvas: the gesture is a drag
    pointers,             \* pointer id -> [down, press, moved], its gesture
    lastGesture,          \* the gesture that ended last, with its events
    selection,            \* editHotspot, displayHotspot and maskDataUrl
    imgRef,               \* imgRef.current is an image
    prompt,               \* the prompt is not blank
    isLoading,
    timeouts,             \* pending setTimeout callbacks of the operations
    history,              \* [length, index]: history.length and historyIndex
    ops,                  \* the operations in progress
    opsStarted,              \* number of operations started so far
    finished              \* the operation that ended last

editorVars == <<dragStartInfo, isDrawing, pointers, lastGesture, selection,
                imgRef, prompt, isLoading, timeouts, history, ops, opsStarted,
                finished>>

(***************************************************************************)
(* State of the gallery: the documents of the backend and the view.        *)
(***************************************************************************)
VARIABLES
    gallery,              \* document id -> [exists, parentId]
    currentFolderId,
    selectedItems,
    confirmingDelete,
    lastResponse          \* [route, status] of the last answer of the backend

galleryVars == <<gallery, currentFolderId, selectedItems, confirmingDelete,
                 lastResponse>>

\* resultFiles of an item: n images, of which the run that produced them had
\* stored `stored` in the gallery when it set the item 'done'
NoResult == [n |-> 0, stored |-> 0]

\* the value undefined of the program
Undefined == "<undefined>"

QueuedItem == [status |-> "queued", resultFiles |-> NoResult, error |-> Undefined]

BatchInit ==
    /\ queue \in {[i \in 1..n |-> QueuedItem] : n \in ItemIds}
    /\ nviews \in 0..MaxViews
    /\ isProcessing = FALSE
    /\ isBatchCancelled = FALSE
    /\ cancelledSingleItems = {}
    /\ batches = <<>>
    /\ runs = {}
    /\ singles = 0

(***************************************************************************)
(* processItem, the part that runs synchronously when it is called.        *)
(***************************************************************************)
\* the cancellation test of processItem (lines 539, 547, 802 and 839)
IsCancelled(item, batchFlag, singleFlags) ==
    batchFlag \/ item \in singleFlags

\* handleItemProgress: marks the item 'processing' unless it is cancelled
HandleItemProgress(q, item, batchFlag, singleFlags) ==
    IF IsCancelled(item, batchFlag, singleFlags)
    THEN q
    ELSE [q EXCEPT ![item].status = "processing"]

\* A processItem run at its first await. batch is the processQueue run that
\* called it, or -n for the n-th handleProcessSingleItem call.
NewRun(item, batch) ==
    [item |-> item, batch |-> batch, pc |-> "prep", k |-> 0, cancelled |-> FALSE]

\* The items of a chunk whose processItem call goes past the first
\* cancellation test (line 547) and reaches its first await.
Started(chunk, batchFlag, singleFlags) ==
    {chunk[j] : j \in {n \in 1..Len(chunk) :
                         ~IsCancelled(chunk[n], batchFlag, singleFlags)}}

(***************************************************************************)
(* processQueue.                                                           *)
(***************************************************************************)
\* itemsToProcessCount: the items a batch would process
ItemsToProcessCount(q) ==
    Cardinality({i \in DOMAIN q : q[i].status \in {"queued", "error"}})

\* queue.map(item => item.status === 'error' ? {...item, status: 'queued'} : item)
QueueWithResetErrors(q) ==
    [i \in DOMAIN q |->
        IF q[i].status = "error"
        THEN [q[i] EXCEPT !.status = "queued", !.error = Undefined]
        ELSE q[i]]

RECURSIVE FilterQueued(_, _)
\* queueWithResetErrors.filter(item => item.status === 'queued'), in queue order
FilterQueued(q, i) ==
    IF i > Len(q) THEN <<>>
    ELSE (IF q[i].status = "queued" THEN <<i>> ELSE <<>>) \o FilterQueued(q, i + 1)

\* itemsToProcess.slice(i, i + CONCURRENCY_LIMIT)
Chunk(items, i) ==
    SubSeq(items, i + 1, Min(i + CONCURRENCY_LIMIT, Len(items)))

\* The loop of processQueue from index i on, until its next await or its end:
\* the state after it, given the queue q the loop starts from.
LoopFrom(b, items, i, q) ==
    IF i >= Len(items) \/ isBatchCancelled
    THEN /\ batches' = [batches EXCEPT ![b].pc = "done", ![b].snap = <<>>,
                                       ![b].items = <<>>, ![b].i = 0]
         /\ isProcessing' = FALSE
         /\ queue' = q
         /\ UNCHANGED <<cancelledSingleItems, runs>>
    ELSE LET chunk == Chunk(items, i)
             started == Started(chunk, FALSE, cancelledSingleItems)
         IN /\ batches' = [batches EXCEPT ![b].pc = "await", ![b].snap = <<>>,
                                          ![b].items = items, ![b].i = i]
            /\ queue' = [j \in DOMAIN q |->
                            IF j \in started THEN [q[j] EXCEPT !.status = "processing"]
                            ELSE q[j]]
            /\ cancelledSingleItems' =
                   cancelledSingleItems \ {chunk[j] : j \in 1..Len(chunk)}
            /\ runs' = runs \cup
                   {NewRun(it, b) : it \in started}
            /\ UNCHANGED isProcessing

\* A continuation that is ready to run (the Promise.all of a chunk that has
\* no run left) is a microtask: it runs before the browser delivers the next
\* event, be it a click of the user or the answer to a pending request.
EventPossible ==
    \A b \in 1..Len(batches) :
        batches[b].pc = "await" => \E r \in runs : r.batch = b

\* the exploration bound of the two actions that start processing
StartAllowed ==
    /\ Len(batches) + singles <
           (IF Len(queue) <= MaxRestartItems THEN MaxStarts ELSE 1)
    /\ Cardinality(runs) <= MaxStale

\* the click on 'Iniciar Processamento', up to the await of the token refresh
ProcessQueueStart ==
    /\ EventPossible
    /\ ~isProcessing
    /\ ItemsToProcessCount(queue) > 0
    /\ Len(batches) < MaxBatches
    /\ StartAllowed
    /\ isBatchCancelled' = FALSE
    /\ isProcessing' = TRUE
    /\ batches' = Append(batches, [pc |-> "token", snap |-> queue, items |-> <<>>,
                                   i |-> 0, cancelled |-> FALSE,
                                   itemCancelled |-> cancelledSingleItems # {}])
    /\ UNCHANGED <<queue, nviews, cancelledSingleItems, runs,
                   singles>>

\* the token refresh resolves: the queue is replaced and the first chunk starts
ProcessQueueTokenOk(b) ==
    /\ EventPossible
    /\ batches[b].pc = "token"
    /\ LET q == QueueWithResetErrors(batches[b].snap)
       IN LoopFrom(b, FilterQueued(q, 1), 0, q)
    /\ UNCHANGED <<nviews, isBatchCancelled, singles>>

\* the token refresh rejects: processQueue rejects before its loop
ProcessQueueTokenFail(b) ==
    /\ EventPossible
    /\ batches[b].pc = "token"
    /\ batches' = [batches EXCEPT ![b].pc = "failed", ![b].snap = <<>>]
    /\ UNCHANGED <<queue, nviews, isProcessing, isBatchCancelled,
                   cancelledSingleItems, runs, singles>>

\* Promise.all of the current chunk resolves: the loop goes on
ProcessQueueNextChunk(b) ==
    /\ batches[b].pc = "await"
    /\ ~ \E r \in runs : r.batch = b
    /\ LoopFrom(b, batches[b].items, batches[b].i + CONCURRENCY_LIMIT, queue)
    /\ UNCHANGED <<nviews, isBatchCancelled, singles>>

(***************************************************************************)
(* processItem, one action per await.                                      *)
(***************************************************************************)
Replace(r, r2) == (runs \ {r}) \cup {r2}

\* a cancellation test that succeeds: the flag of the item is removed and
\* processItem returns without touching the queue
ReturnCancelled(r) ==
    /\ cancelledSingleItems' = cancelledSingleItems \ {r.item}
    /\ runs' = runs \ {r}
    /\ UNCHANGED queue

\* the values an await of processItem rejects with: an Error, or a value
\* that is no Error
Thrown ==
    {[isError |-> TRUE, message |-> "Token de autenticacao nao disponivel."],
     [isError |-> FALSE, message |-> Undefined]}

\* the Error processItem throws when no view is selected
NoViewSelected ==
    [isError |-> TRUE, message |-> "Nenhuma vista de geracao foi selecionada"]

\* err instanceof Error ? err.message : 'An unknown error occurred.'
ErrorMessage(err) ==
    IF err.isError THEN err.message ELSE "An unknown error occurred."

\* a catch block that lets the failure of one item end its whole chunk
CatchEndsChunk(r, err) ==
    IF IsCancelled(r.item, isBatchCancelled, cancelledSingleItems)
    THEN ReturnCancelled(r)
    ELSE /\ queue' = [i \in DOMAIN queue |->
                         IF \E r2 \in runs : r2.batch = r.batch /\ r2.item = i
                         THEN [queue[i] EXCEPT !.status = "error",
                                               !.error = ErrorMessage(err)]
                         ELSE queue[i]]
         /\ runs' = {r2 \in runs : r2.batch # r.batch}
         /\ UNCHANGED cancelledSingleItems

\* the catch block of processItem
Catch(r, err) ==
    IF IsCancelled(r.item, isBatchCancelled, cancelledSingleItems)
    THEN ReturnCancelled(r)
    ELSE /\ queue' = [queue EXCEPT ![r.item].status = "error",
                                   ![r.item].error = ErrorMessage(err)]
         /\ runs' = runs \ {r}
         /\ UNCHANGED cancelledSingleItems

\* folder lookup and age training are over: 'Aprimorando imagens...'
PrepOk(r) ==
    /\ EventPossible
    /\ r.pc = "prep"
    /\ queue' = HandleItemProgress(queue, r.item, isBatchCancelled, cancelledSingleItems)
    /\ runs' = Replace(r, [r EXCEPT !.pc = "enhance"])
    /\ UNCHANGED <<nviews, isProcessing, isBatchCancelled,
                   cancelledSingleItems, batches, singles>>

\* all enhanceAndUpscaleImage requests are answered
EnhanceOk(r) ==
    /\ EventPossible
    /\ r.pc = "enhance"
    /\ IF nviews = 0
       THEN Catch(r, NoViewSelected)
       ELSE /\ queue' = HandleItemProgress(queue, r.item, isBatchCancelled,
                                            cancelledSingleItems)
            /\ runs' = Replace(r, [r EXCEPT !.pc = "generate", !.k = 0])
            /\ UNCHANGED cancelledSingleItems
    /\ UNCHANGED <<nviews, isProcessing, isBatchCancelled,
                   batches, singles>>

\* one generateModelImage request is answered
GenerateOk(r) ==
    /\ EventPossible
    /\ r.pc = "generate"
    /\ queue' = HandleItemProgress(queue, r.item, isBatchCancelled, cancelledSingleItems)
    /\ runs' = Replace(r, IF r.k + 1 < nviews
                          THEN [r EXCEPT !.k = r.k + 1]
                          ELSE [r EXCEPT !.pc = "finalize", !.k = 0])
    /\ UNCHANGED <<nviews, isProcessing, isBatchCancelled,
                   cancelledSingleItems, batches, singles>>

\* resizing is over: the last cancellation test, then the storage loop starts
FinalizeOk(r) ==
    /\ EventPossible
    /\ r.pc = "finalize"
    /\ IF IsCancelled(r.item, isBatchCancelled, cancelledSingleItems)
       THEN ReturnCancelled(r)
       ELSE /\ runs' = Replace(r, [r EXCEPT !.pc = "store", !.k = 0])
            /\ UNCHANGED <<queue, cancelledSingleItems>>
    /\ UNCHANGED <<nviews, isProcessing, isBatchCancelled,
                   batches, singles>>

\* a storage loop that stops one image early
StoreLoopShort(k, n) == k >= n - 1

\* for (let i = 0; i < finalResultUrls.length; i++): the loop is over
StoreLoopDone(k, n) == k >= n

\* one addImageToStorage call completes
StoreOk(r) ==
    /\ EventPossible
    /\ r.pc = "store"
    /\ IF StoreLoopDone(r.k + 1, nviews)
       THEN /\ queue' = [queue EXCEPT
                            ![r.item].status = "done",
                            ![r.item].resultFiles = [n |-> nviews, stored |-> r.k + 1]]
            /\ runs' = runs \ {r}
       ELSE /\ runs' = Replace(r, [r EXCEPT !.k = r.k + 1])
            /\ UNCHANGED queue
    /\ UNCHANGED <<nviews, isProcessing, isBatchCancelled,
                   cancelledSingleItems, batches, singles>>

\* the pending await of processItem rejects
ItemFail(r) ==
    /\ EventPossible
    /\ \E err \in Thrown : Catch(r, err)
    /\ UNCHANGED <<nviews, isProcessing, isBatchCancelled,
                   batches, singles>>

(***************************************************************************)
(* The user's other controls of the batch.                                 *)
(***************************************************************************)
handleCancelProcessing ==
    /\ EventPossible
    /\ isProcessing
    /\ isBatchCancelled' = TRUE
    /\ isProcessing' = FALSE
    /\ queue' = [i \in DOMAIN queue |->
                    IF queue[i].status = "processing"
                    THEN [queue[i] EXCEPT !.status = "queued"]
                    ELSE queue[i]]
    /\ runs' = {IF r.batch > 0 THEN [r EXCEPT !.cancelled = TRUE] ELSE r : r \in runs}
    /\ batches' = [b \in DOMAIN batches |->
                      IF batches[b].pc \in {"token", "await"}
                      THEN [batches[b] EXCEPT !.cancelled = TRUE]
                      ELSE batches[b]]
    /\ UNCHANGED <<nviews, cancelledSingleItems, singles>>

handleCancelSingleItem(i) ==
    /\ EventPossible
    /\ queue[i].status = "processing"
    /\ cancelledSingleItems' = cancelledSingleItems \cup {i}
    /\ queue' = [queue EXCEPT ![i].status = "queued"]
    /\ runs' = {IF r.item = i THEN [r EXCEPT !.cancelled = TRUE] ELSE r : r \in runs}
    /\ batches' = [b \in DOMAIN batches |->
                      IF batches[b].pc \in {"token", "await"}
                      THEN [batches[b] EXCEPT !.itemCancelled = TRUE]
                      ELSE batches[b]]
    /\ UNCHANGED <<nviews, isProcessing, isBatchCancelled, singles>>

handleProcessSingleItem(i) ==
    /\ EventPossible
    /\ ~isProcessing
    /\ queue[i].status \in {"queued", "error", "done"}
    /\ StartAllowed
    /\ singles' = singles + 1
    /\ cancelledSingleItems' = cancelledSingleItems \ {i}
    /\ LET q == IF queue[i].status = "queued" THEN queue
                ELSE [queue EXCEPT ![i] = QueuedItem]
       IN IF isBatchCancelled
          THEN /\ queue' = q
               /\ UNCHANGED runs
          ELSE /\ queue' = [q EXCEPT ![i].status = "processing"]
               /\ runs' = runs \cup {NewRun(i, -(singles + 1))}
    /\ UNCHANGED <<nviews, isProcessing, isBatchCancelled, batches>>

BatchIdle ==
    /\ queue = <<>>
    /\ nviews = 0
    /\ isProcessing = FALSE
    /\ isBatchCancelled = FALSE
    /\ cancelledSingleItems = {}
    /\ batches = <<>>
    /\ runs = {}
    /\ singles = 0

(***************************************************************************)
(* The settings cascade of processItem (gender and age of the model).      *)
(***************************************************************************)
Genders == {"male", "female"}

\* the global age settings the model starts from
ModelAges == {[male |-> "30", female |-> "25"], [male |-> "", female |-> "40"]}

\* the ages the age field of an item is set to ('' when the user clears it)
ItemAges == {"", "18"}

\* the columns of the spreadsheet, as written in its first row
GenderHeaders == {"Genero", "SEXO"}

AgeHeaders == {"Idade"}

\* the cells of a row (Undefined: the row has no cell in the column)
GenderCells == {Undefined, "", "Masculino", "FEMALE", "unisex"}

AgeCells == {Undefined, "", "8-10"}

\* item.metadata of an item that matches no row of the spreadsheet
NoMetadata ==
    [defined |-> FALSE, row |-> [h \in GenderHeaders \cup AgeHeaders |-> Undefined]]

SettingsInit ==
    /\ modelGender \in Genders
    /\ modelAge \in ModelAges
    /\ itemSettings = [modelGender |-> Undefined, modelAge |-> Undefined]
    /\ metadata \in {NoMetadata} \cup
           {[defined |-> TRUE,
             row |-> [h \in GenderHeaders \cup AgeHeaders |->
                         IF h \in GenderHeaders THEN g[h] ELSE a[h]]] :
              g \in [GenderHeaders -> GenderCells], a \in [AgeHeaders -> AgeCells]}
    /\ used = <<>>

\* String.prototype.toLowerCase on the strings of the model
ToLowerCase(s) ==
    CASE s = "Genero" -> "genero"
      [] s = "SEXO" -> "sexo"
      [] s = "Idade" -> "idade"
      [] s = "Masculino" -> "masculino"
      [] s = "FEMALE" -> "female"
      [] s = "OBS_ROUPA" -> "obs_roupa"
      [] s = "Notas" -> "notas"
      [] OTHER -> s

\* the truthiness of a string or undefined
Truthy(s) == s # Undefined /\ s # ""

RECURSIVE FindMetaValueFrom(_, _, _)
\* the loop of findMetaValue from the n-th key on
FindMetaValueFrom(meta, keys, n) ==
    IF n > Len(keys) THEN Undefined
    ELSE LET metaKeys == {k \in DOMAIN meta :
                             /\ meta[k] # Undefined
                             /\ ToLowerCase(k) = ToLowerCase(keys[n])}
         IN IF metaKeys # {} /\ Truthy(meta[CHOOSE k \in metaKeys : TRUE])
            THEN meta[CHOOSE k \in metaKeys : TRUE]
            ELSE FindMetaValueFrom(meta, keys, n + 1)

FindMetaValue(meta, keys) ==
    IF ~meta.defined THEN Undefined ELSE FindMetaValueFrom(meta.row, keys, 1)

GenderKeys == <<"gênero", "genero", "gender", "sexo">>

AgeKeys == <<"idade", "age", "faixa etária", "(anos)">>

\* a cascade in which the spreadsheet row is applied last
ItemGenderRowLast(global, meta, item) ==
    LET metaGender == ToLowerCase(FindMetaValue(meta, GenderKeys))
        g1 == IF Truthy(item.modelGender) THEN item.modelGender ELSE global
    IN IF metaGender \in {"male", "masculino"} THEN "male"
       ELSE IF metaGender \in {"female", "feminino"} THEN "female"
       ELSE g1

\* itemGender of processItem: the global setting, overwritten by the
\* spreadsheet row, overwritten by the override of the item
ItemGender(global, meta, item) ==
    LET metaGender == ToLowerCase(FindMetaValue(meta, GenderKeys))
        g1 == IF metaGender \in {"male", "masculino"} THEN "male"
              ELSE IF metaGender \in {"female", "feminino"} THEN "female"
              ELSE global
    IN IF Truthy(item.modelGender) THEN item.modelGender ELSE g1

\* itemAge of processItem
ItemAge(ages, itemGender, meta, item) ==
    LET metaAge == FindMetaValue(meta, AgeKeys)
        a1 == IF Truthy(metaAge) THEN metaAge ELSE ages[itemGender]
    IN IF Truthy(item.modelAge) THEN item.modelAge ELSE a1

handleItemModelGenderChange(gender) ==
    /\ itemSettings' = [itemSettings EXCEPT !.modelGender = gender]
    /\ UNCHANGED <<modelGender, modelAge, metadata, used>>

handleItemModelAgeChange(age) ==
    /\ itemSettings' = [itemSettings EXCEPT !.modelAge = age]
    /\ UNCHANGED <<modelGender, modelAge, metadata, used>>

\* processItem determines the settings of the item
ProcessItemSettings ==
    /\ LET itemGender == ItemGender(modelGender, metadata, itemSettings)
       IN used' = <<[gender |-> itemGender,
                     age |-> ItemAge(modelAge, itemGender, metadata, itemSettings),
                     global |-> [modelGender |-> modelGender, modelAge |-> modelAge],
                     item |-> itemSettings]>>
    /\ UNCHANGED <<modelGender, modelAge, itemSettings, metadata>>

SettingsIdle ==
    /\ modelGender = "female"
    /\ modelAge = [male |-> "", female |-> ""]
    /\ itemSettings = [modelGender |-> Undefined, modelAge |-> Undefined]
    /\ metadata = NoMetadata
    /\ used = <<>>

(***************************************************************************)
(* handleFiles: the files of one upload are grouped into new queue items.  *)
(* A string is a sequence of characters.                                   *)
(***************************************************************************)
LowerCaseLetters ==
    <<"a", "b", "c", "d", "e", "f", "g", "h", "i", "j", "k", "l", "m",
       "n", "o", "p", "q", "r", "s", "t", "u", "v", "w", "x", "y", "z">>

UpperCaseLetters ==
    <<"A", "B", "C", "D", "E", "F", "G", "H", "I", "J", "K", "L", "M",
       "N", "O", "P", "Q", "R", "S", "T", "U", "V", "W", "X", "Y", "Z">>

Digits == {"0", "1", "2", "3", "4", "5", "6", "7", "8", "9"}

Position(c, letters) == CHOOSE n \in 1..Len(letters) : letters[n] = c

IsIn(c, letters) == \E n \in 1..Len(letters) : letters[n] = c

\* String.prototype.toLowerCase
ToLower(s) ==
    [n \in 1..Len(s) |->
        IF IsIn(s[n], UpperCaseLetters)
        THEN LowerCaseLetters[Position(s[n], UpperCaseLetters)]
        ELSE s[n]]

\* String.prototype.toUpperCase
ToUpper(s) ==
    [n \in 1..Len(s) |->
        IF IsIn(s[n], LowerCaseLetters)
        THEN UpperCaseLetters[Position(s[n], LowerCaseLetters)]
        ELSE s[n]]

\* \s (of the white space characters, file names of the model have the space)
IsSpace(c) == c = " "

\* the character class [\u2010-\u2015\s-]
IsDashOrSpace(c) == c = "-" \/ IsSpace(c)

RECURSIVE TrimStart(_)
TrimStart(s) ==
    IF s # <<>> /\ IsSpace(Head(s)) THEN TrimStart(Tail(s)) ELSE s

RECURSIVE TrimEnd(_)
TrimEnd(s) ==
    IF s # <<>> /\ IsSpace(s[Len(s)]) THEN TrimEnd(SubSeq(s, 1, Len(s) - 1)) ELSE s

\* String.prototype.trim, and .replace(/^[\s\uFEFF\xA0]+|[\s\uFEFF\xA0]+$/g, '')
Trim(s) == TrimEnd(TrimStart(s))

\* .replace(/\.[^/.]+$/, ''): the text from the last dot on is removed when
\* the dot is not the last character and no slash follows it
StripExtension(s) ==
    LET dots == {n \in 1..Len(s) : s[n] = "."}
    IN IF dots = {} THEN s
       ELSE LET last == CHOOSE n \in dots : \A n2 \in dots : n2 <= n
            IN IF last < Len(s) /\ \A n \in (last + 1)..Len(s) : s[n] # "/"
               THEN SubSeq(s, 1, last - 1)
               ELSE s

EndsWith(s, suffix) ==
    /\ Len(s) >= Len(suffix)
    /\ SubSeq(s, Len(s) - Len(suffix) + 1, Len(s)) = suffix

textSuffixes ==
    << <<"_", "f", "r", "e", "n", "t", "e">>,
       <<"_", "c", "o", "s", "t", "a", "s">>,
       <<"_", "b", "a", "c", "k">>,
       <<"_", "f", "r", "o", "n", "t">>,
       <<"_", "t", "o", "t", "a", "l", "_", "l", "o", "o", "k">>,
       <<"_", "d", "e", "t", "a", "l", "h", "e">>,
       <<"_", "s", "i", "d", "e">>,
       <<"_", "l", "a", "d", "o">> >>

RECURSIVE TextSuffixFrom(_, _)
\* the first text suffix, from the n-th on, that the name ends with (0: none)
TextSuffixFrom(s, n) ==
    IF n > Len(textSuffixes) THEN 0
    ELSE IF EndsWith(ToLower(s), textSuffixes[n]) THEN n
    ELSE TextSuffixFrom(s, n + 1)

\* the length of the match of /_(\d{1,2})$/ (0: no match)
NumericMatch(s) ==
    IF Len(s) >= 3 /\ s[Len(s) - 2] = "_" /\ s[Len(s) - 1] \in Digits
                   /\ s[Len(s)] \in Digits
    THEN 3
    ELSE IF Len(s) >= 2 /\ s[Len(s) - 1] = "_" /\ s[Len(s)] \in Digits
    THEN 2
    ELSE 0

RECURSIVE StripSuffixes(_)
\* the while loop of getBaseName
StripSuffixes(baseName) ==
    LET t == TextSuffixFrom(baseName, 1)
    IN IF t > 0
       THEN StripSuffixes(SubSeq(baseName, 1, Len(baseName) - Len(textSuffixes[t])))
       ELSE IF NumericMatch(baseName) > 0
       THEN StripSuffixes(SubSeq(baseName, 1, Len(baseName) - NumericMatch(baseName)))
       ELSE baseName

getBaseName(fileName) == StripSuffixes(Trim(StripExtension(fileName)))

RECURSIVE ReplaceDashes(_)
\* .replace(/[\u2010-\u2015\s-]+/g, '_')
ReplaceDashes(s) ==
    IF s = <<>> THEN <<>>
    ELSE IF IsDashOrSpace(Head(s))
    THEN IF Len(s) > 1 /\ IsDashOrSpace(s[2])
         THEN ReplaceDashes(Tail(s))
         ELSE <<"_">> \o ReplaceDashes(Tail(s))
    ELSE <<Head(s)>> \o ReplaceDashes(Tail(s))

normalizeSku(sku) == ToUpper(ReplaceDashes(Trim(sku)))

\* the names of the files the user uploads
FileNames ==
    { <<"A", "-", "1", "_", "f", "r", "o", "n", "t", ".", "j", "p", "g">>,
      <<"a", " ", "1", "_", "B", "A", "C", "K", ".", "p", "n", "g">>,
      <<"A", "_", "1", ".", "j", "p", "g">>,
      <<"A", "_", "l", "a", "d", "o", "_", "2", ".", "j", "p", "g">>,
      <<" ", "a", " ", ".", "j", "p", "g">>,
      <<"B", "_", "1", "2", "3", ".", "j", "p", "g">>,
      <<"b", ".", "t", "a", "r", ".", "g", "z">>,
      <<"B", "-", " ", "1">> }

MaxUploadFiles == 3

\* the FileLists of an upload
FileLists == UNION {[1..n -> FileNames] : n \in 0..MaxUploadFiles}

\* groupKey of handleFiles
GroupKeyRaw(fileName) == getBaseName(fileName)

GroupKey(fileName) == normalizeSku(getBaseName(fileName))

\* fileGroups.has(groupKey)
HasGroup(fileGroups, groupKey) ==
    \E g \in 1..Len(fileGroups) : fileGroups[g].groupKey = groupKey

RECURSIVE GroupFiles(_, _, _)
\* the first loop of handleFiles from the n-th file on: fileGroups, a Map in
\* insertion order, as the sequence of its entries
GroupFiles(files, n, fileGroups) ==
    IF n > Len(files) THEN fileGroups
    ELSE LET rawBaseName == getBaseName(files[n])
             groupKey == GroupKey(files[n])
             groups == IF HasGroup(fileGroups, groupKey) THEN fileGroups
                       ELSE Append(fileGroups, [groupKey |-> groupKey,
                                                rawBaseName |-> rawBaseName,
                                                files |-> <<>>])
             g == CHOOSE k \in 1..Len(groups) : groups[k].groupKey = groupKey
         IN GroupFiles(files, n + 1,
                       [groups EXCEPT ![g].files = Append(@, n)])

\* the second loop of handleFiles: one new item for each group. A file of
\* the FileList is named by its position in the list; the id of an item
\* begins with the group key.
NewItems(fileGroups) ==
    [g \in 1..Len(fileGroups) |->
        [id |-> fileGroups[g].groupKey,
         baseName |-> fileGroups[g].rawBaseName,
         status |-> "queued",
         resultFiles |-> NoResult,
         availableFiles |-> fileGroups[g].files]]

\* an item that is in the queue before the upload
EarlierItem ==
    [id |-> <<"A">>, baseName |-> <<"A">>, status |-> "done",
     resultFiles |-> [n |-> 1, stored |-> 1], availableFiles |-> <<1>>]

UploadInit ==
    /\ queue \in {<<>>, <<EarlierItem>>}
    /\ uploaded = [files |-> <<>>, first |-> 0]

handleFiles(files) ==
    /\ uploaded.files = <<>>
    /\ IF Len(files) = 0
       THEN UNCHANGED <<queue, uploaded>>
       ELSE /\ queue' = queue \o NewItems(GroupFiles(files, 1, <<>>))
            /\ uploaded' = [files |-> files, first |-> Len(queue)]
    /\ UNCHANGED <<nviews, isProcessing, isBatchCancelled, cancelledSingleItems,
                   batches, runs, singles>>

UploadIdle == uploaded = [files |-> <<>>, first |-> 0]

\* the batch orchestrator at rest, whatever its queue
BatchRest ==
    /\ nviews = 0
    /\ isProcessing = FALSE
    /\ isBatchCancelled = FALSE
    /\ cancelledSingleItems = {}
    /\ batches = <<>>
    /\ runs = {}
    /\ singles = 0

(***************************************************************************)
(* The masking canvas (MaskingCanvas) and the selection of the editor.     *)
(***************************************************************************)
\* dist > 5 of handlePointerMove
DragThreshold == 5

MaxPointers == 2

\* naturalWidth / clientWidth of the image
ImageScale == 2

MaxOps == 2

Pointers == 1..MaxPointers

\* the positions of the pointer events: (3, 4) is 5 pixels away from
\* (0, 0), (4, 4) is farther
Points == {[x |-> 0, y |-> 0], [x |-> 3, y |-> 4], [x |-> 4, y |-> 4]}

\* null, where a point is expected
NullPoint == [x |-> -1, y |-> -1]

\* Math.hypot(a.x - b.x, a.y - b.y) > DragThreshold, on integers
FartherThanThreshold(a, b) ==
    (a.x - b.x) * (a.x - b.x) + (a.y - b.y) * (a.y - b.y)
        > DragThreshold * DragThreshold

\* canvas.toDataURL('image/png')
CanvasDataUrl == "data:image/png"

NoSelection ==
    [editHotspot |-> NullPoint, displayHotspot |-> NullPoint,
     maskDataUrl |-> "null", selected |-> "none", replaced |-> FALSE]

NoGesture == [press |-> NullPoint, moved |-> FALSE, events |-> <<>>]

NoOp == [kind |-> "none", calls |-> 0, outcome |-> "none"]

CanvasInit ==
    /\ dragStartInfo = NullPoint
    /\ isDrawing = FALSE
    /\ pointers = [p \in Pointers |-> [down |-> FALSE, press |-> NullPoint, moved |-> FALSE]]
    /\ lastGesture = NoGesture

EditorInit ==
    /\ CanvasInit
    /\ selection = NoSelection
    /\ imgRef \in BOOLEAN
    /\ prompt = FALSE
    /\ isLoading = FALSE
    /\ timeouts = 0
    /\ history = [length |-> 1, index |-> 0]
    /\ ops = {}
    /\ opsStarted = 0
    /\ finished = NoOp

\* the effect of Editor that runs when maskDataUrl or editHotspot changed
Settle(sel) ==
    IF sel.maskDataUrl # "null" /\ sel.editHotspot # NullPoint
    THEN [sel EXCEPT !.editHotspot = NullPoint, !.displayHotspot = NullPoint]
    ELSE sel

\* a click handler that leaves the mask as it is
HotspotClickKeepsMask(sel, pos) ==
    IF ~imgRef THEN sel
    ELSE Settle([sel EXCEPT !.displayHotspot = pos,
                            !.editHotspot = [x |-> pos.x * ImageScale,
                                             y |-> pos.y * ImageScale],
                            !.selected = "hotspot",
                            !.replaced = sel.maskDataUrl # "null"])

\* handleHotspotClick of Editor
HotspotClick(sel, pos) ==
    IF ~imgRef THEN sel
    ELSE Settle([editHotspot |-> [x |-> pos.x * ImageScale, y |-> pos.y * ImageScale],
                 displayHotspot |-> pos,
                 maskDataUrl |-> "null",
                 selected |-> "hotspot",
                 replaced |-> sel.maskDataUrl # "null"])

\* handleMaskUpdate of Editor
MaskUpdate(sel, dataUrl) ==
    IF dataUrl \notin {"null", ""}
    THEN Settle([editHotspot |-> NullPoint, displayHotspot |-> NullPoint,
                 maskDataUrl |-> dataUrl, selected |-> "mask",
                 replaced |-> sel.editHotspot # NullPoint])
    ELSE Settle([sel EXCEPT !.maskDataUrl = dataUrl,
                            !.selected = IF @ = "mask" THEN "none" ELSE @])

\* setEditHotspot(null); setDisplayHotspot(null)
ClearHotspot(sel) ==
    Settle([sel EXCEPT !.editHotspot = NullPoint, !.displayHotspot = NullPoint,
                       !.selected = IF @ = "hotspot" THEN "none" ELSE @])

\* setMaskDataUrl(null)
ClearMask(sel) ==
    Settle([sel EXCEPT !.maskDataUrl = "null",
                       !.selected = IF @ = "mask" THEN "none" ELSE @])

canvasVars == <<dragStartInfo, isDrawing, pointers, lastGesture>>

opVars == <<prompt, isLoading, timeouts, history, ops, opsStarted, finished>>

handlePointerDown(p, pos) ==
    /\ ~pointers[p].down
    /\ isDrawing' = FALSE
    /\ dragStartInfo' = pos
    /\ pointers' = [pointers EXCEPT ![p] = [down |-> TRUE, press |-> pos, moved |-> FALSE]]
    /\ UNCHANGED <<lastGesture, selection, imgRef, opVars>>

handlePointerMove(p, currentPoint) ==
    /\ isDrawing' = (isDrawing \/ (/\ dragStartInfo # NullPoint
                                   /\ FartherThanThreshold(currentPoint, dragStartInfo)))
    /\ pointers' = [pointers EXCEPT ![p].moved =
                       @ \/ (/\ pointers[p].down
                             /\ FartherThanThreshold(currentPoint, pointers[p].press))]
    /\ UNCHANGED <<dragStartInfo, lastGesture, selection, imgRef, opVars>>

\* the events a call of handlePointerUp produces
EventsOfPointerUp ==
    IF dragStartInfo = NullPoint THEN <<>>
    ELSE IF isDrawing THEN <<[type |-> "maskUpdate", pos |-> NullPoint]>>
    ELSE <<[type |-> "hotspotClick", pos |-> dragStartInfo]>>

\* handlePointerUp, which onPointerUp and onPointerLeave are bound to; the
\* event comes from pointer p, which is pressed (pointer up, or pointer
\* leave of a pressed pointer) or is not (pointer leave of a hovering one)
handlePointerUp(p) ==
    /\ isDrawing' = FALSE
    /\ dragStartInfo' = NullPoint
    /\ selection' =
           IF dragStartInfo = NullPoint THEN selection
           ELSE IF isDrawing THEN MaskUpdate(selection, CanvasDataUrl)
           ELSE HotspotClick(selection, dragStartInfo)
    /\ IF pointers[p].down
       THEN /\ lastGesture' = [press |-> pointers[p].press,
                               moved |-> pointers[p].moved,
                               events |-> EventsOfPointerUp]
            /\ pointers' = [pointers EXCEPT ![p] =
                               [down |-> FALSE, press |-> NullPoint, moved |-> FALSE]]
       ELSE UNCHANGED <<lastGesture, pointers>>
    /\ UNCHANGED <<imgRef, opVars>>

\* handleHotspotClick of Editor, as the onHotspotClick of the canvas
handleHotspotClick(pos) ==
    /\ selection' = HotspotClick(selection, pos)
    /\ UNCHANGED <<canvasVars, imgRef, opVars>>

\* handleMaskUpdate of Editor, as the onMaskUpdate of the canvas
handleMaskUpdate(dataUrl) ==
    /\ selection' = MaskUpdate(selection, dataUrl)
    /\ UNCHANGED <<canvasVars, imgRef, opVars>>

(***************************************************************************)
(* The operations of the editor (App): retouch, crop and resize. An        *)
(* operation in progress is [id, kind, pc, calls, index]: calls counts its *)
(* generateContent requests, index is historyIndex as its handler saw it.  *)
(***************************************************************************)
\* setPrompt, from the text field of the retouch form
setPrompt(text) ==
    /\ ~isLoading
    /\ selection.editHotspot # NullPoint \/ selection.maskDataUrl # "null"
    /\ prompt' = text
    /\ UNCHANGED <<canvasVars, selection, imgRef, isLoading, timeouts, history,
                   ops, opsStarted, finished>>

NewOp(kind) ==
    [id |-> opsStarted + 1, kind |-> kind, pc |-> "prepare", calls |-> 0,
     index |-> history.index]

\* handleGenerate, up to its first await
handleGenerate ==
    /\ opsStarted < MaxOps
    /\ ~isLoading
    /\ prompt
    /\ selection.editHotspot # NullPoint \/ selection.maskDataUrl # "null"
    /\ isLoading' = TRUE
    /\ ops' = ops \cup {NewOp("retouch")}
    /\ opsStarted' = opsStarted + 1
    /\ UNCHANGED <<canvasVars, selection, imgRef, prompt, timeouts, history, finished>>

\* handleApplyResize, up to its first await
handleApplyResize ==
    /\ opsStarted < MaxOps
    /\ ~isLoading
    /\ isLoading' = TRUE
    /\ ops' = ops \cup {NewOp("resize")}
    /\ opsStarted' = opsStarted + 1
    /\ UNCHANGED <<canvasVars, selection, imgRef, prompt, timeouts, history, finished>>

\* handleApplyCrop, up to its first await
handleApplyCrop ==
    /\ opsStarted < MaxOps
    /\ ~isLoading
    /\ imgRef
    /\ ops' = ops \cup {NewOp("crop")}
    /\ opsStarted' = opsStarted + 1
    /\ UNCHANGED <<canvasVars, selection, imgRef, prompt, isLoading, timeouts,
                   history, finished>>

\* a crop that asks the generation API as the other operations do
AfterPrepareAlwaysRequest(kind) == "request"

\* what follows the preparation of an operation: generateEditedImage (for a
\* resize, called by expandImage) sends one generateContent request; a crop
\* is drawn on a canvas and goes on to store its result
AfterPrepare(kind) == IF kind = "crop" THEN "store" ELSE "request"

\* the files of the operation are read
OpPrepared(o) ==
    /\ o.pc = "prepare"
    /\ LET pc == AfterPrepare(o.kind)
       IN ops' = (ops \ {o}) \cup
                 {[o EXCEPT !.pc = pc,
                            !.calls = IF pc = "request" THEN @ + 1 ELSE @]}
    /\ UNCHANGED <<canvasVars, selection, imgRef, prompt, isLoading, timeouts,
                   history, opsStarted, finished>>

\* the generation API answers with an image
OpResponded(o) ==
    /\ o.pc = "request"
    /\ ops' = (ops \ {o}) \cup {[o EXCEPT !.pc = "store"]}
    /\ UNCHANGED <<canvasVars, selection, imgRef, prompt, isLoading, timeouts,
                   history, opsStarted, finished>>

\* finally { setTimeout(...) } of handleGenerate and handleApplyResize
TimeoutsAfter(o) == IF o.kind = "crop" THEN timeouts ELSE timeouts + 1

\* addImageToStorage completes: the result goes to the history
OpStored(o) ==
    /\ o.pc = "store"
    /\ ops' = ops \ {o}
    /\ history' = [length |-> o.index + 2, index |-> o.index + 1]
    /\ selection' = IF o.kind = "retouch"
                    THEN ClearMask(ClearHotspot(selection))
                    ELSE selection
    /\ timeouts' = TimeoutsAfter(o)
    /\ finished' = [kind |-> o.kind, calls |-> o.calls, outcome |-> "done"]
    /\ UNCHANGED <<canvasVars, imgRef, prompt, isLoading, opsStarted>>

\* the pending await of the operation rejects
OpFailed(o) ==
    /\ ops' = ops \ {o}
    /\ timeouts' = TimeoutsAfter(o)
    /\ finished' = [kind |-> o.kind, calls |-> o.calls, outcome |-> "failed"]
    /\ UNCHANGED <<canvasVars, selection, imgRef, prompt, isLoading, history, opsStarted>>

\* setTimeout(() => { setIsLoading(false); ... }, 500)
LoadingTimeout ==
    /\ timeouts > 0
    /\ timeouts' = timeouts - 1
    /\ isLoading' = FALSE
    /\ UNCHANGED <<canvasVars, selection, imgRef, prompt, history, ops, opsStarted, finished>>

\* the 'Limpar Mascara' button
clearMask ==
    /\ ~isLoading
    /\ selection.maskDataUrl # "null"
    /\ selection' = ClearMask(selection)
    /\ UNCHANGED <<canvasVars, imgRef, opVars>>

handleUndo ==
    /\ history.index > 0
    /\ history' = [history EXCEPT !.index = @ - 1]
    /\ selection' = ClearHotspot(selection)
    /\ UNCHANGED <<canvasVars, imgRef, prompt, isLoading, timeouts, ops, opsStarted, finished>>

handleRedo ==
    /\ history.index < history.length - 1
    /\ history' = [history EXCEPT !.index = @ + 1]
    /\ selection' = ClearHotspot(selection)
    /\ UNCHANGED <<canvasVars, imgRef, prompt, isLoading, timeouts, ops, opsStarted, finished>>

handleReset ==
    /\ history.index > 0
    /\ history' = [length |-> 1, index |-> 0]
    /\ selection' = ClearHotspot(selection)
    /\ UNCHANGED <<canvasVars, imgRef, prompt, isLoading, timeouts, ops, opsStarted, finished>>

EditorIdle ==
    /\ CanvasInit
    /\ selection = NoSelection
    /\ imgRef = FALSE
    /\ prompt = FALSE
    /\ isLoading = FALSE
    /\ timeouts = 0
    /\ history = [length |-> 1, index |-> 0]
    /\ ops = {}
    /\ opsStarted = 0
    /\ finished = NoOp

(***************************************************************************)
(* The gallery: the documents of the 'gallery' collection with the routes  *)
(* of the backend, and the gallery view of the client.                     *)
(***************************************************************************)
RootId == "root"

\* the folder found or created by findOrCreateTrashFolderController; the
\* model keeps one identifier for it also when it is created anew
TrashDoc == "lixeira"

FileDocs == {"f1", "f2"}

FolderDocs == {"dir", TrashDoc}

GalleryDocs == FileDocs \cup FolderDocs

Absent == [exists |-> FALSE, parentId |-> RootId]

NoResponse == [route |-> "none", status |-> 0]

\* the routes of the gallery router that change documents
Routes ==
    {"POST /gallery/trash-folder", "DELETE /gallery/items", "PUT /gallery/move"}

GalleryInit ==
    /\ gallery \in {[d \in GalleryDocs |->
                        [exists |-> TRUE,
                         parentId |-> IF d = "f2" THEN parent ELSE RootId]] :
                    parent \in {RootId, "dir", TrashDoc}}
    /\ currentFolderId = RootId
    /\ selectedItems = {}
    /\ confirmingDelete = FALSE
    /\ lastResponse = NoResponse

\* the folder the client holds as trashFolderId after the first load
trashFolderId == TrashDoc

isTrashView == currentFolderId = trashFolderId

\* getGalleryItemsController: the documents whose parentId is the folder
Listed(g, folderId) ==
    {d \in GalleryDocs : g[d].exists /\ g[d].parentId = folderId}

\* findOrCreateTrashFolderController
FindOrCreateTrashFolder(g) ==
    IF g[TrashDoc].exists THEN g
    ELSE [g EXCEPT ![TrashDoc] = [exists |-> TRUE, parentId |-> RootId]]

RECURSIVE Below(_, _, _)
\* the documents reached from the folders in ds through parentId, in at
\* most n levels
Below(g, ds, n) ==
    IF n = 0 THEN ds
    ELSE Below(g, ds \cup {d \in GalleryDocs :
                              g[d].exists /\ g[d].parentId \in (ds \cap FolderDocs)},
               n - 1)

\* deleteItemsController with deleteFolderRecursive: the documents of the
\* request that exist are deleted, the folders with all they hold
DeleteItems(g, itemIds) ==
    LET gone == Below(g, {d \in itemIds : g[d].exists}, Cardinality(GalleryDocs))
    IN [d \in GalleryDocs |-> IF d \in gone THEN Absent ELSE g[d]]

\* moveItemsController
MoveItems(g, itemIds, destinationFolderId) ==
    [d \in GalleryDocs |->
        IF d \in itemIds THEN [g[d] EXCEPT !.parentId = destinationFolderId]
        ELSE g[d]]

\* the backend's answer to PUT /gallery/restore: the router has no such
\* route, the documents stay as they are
RestoreItems(g, itemIds) ==
    IF "PUT /gallery/restore" \in Routes THEN MoveItems(g, itemIds, RootId) ELSE g

\* the status of the answer to a request
Status(route) == IF route \in Routes THEN 200 ELSE 404

handleNavigate(folderId) ==
    /\ \/ folderId = RootId
       \/ folderId = trashFolderId
       \/ folderId \in Listed(gallery, currentFolderId) \cap FolderDocs
    /\ currentFolderId' = folderId
    /\ selectedItems' = {}
    /\ UNCHANGED <<gallery, confirmingDelete, lastResponse>>

handleCheckboxToggle(itemId) ==
    /\ itemId \in Listed(gallery, currentFolderId)
    /\ selectedItems' = IF itemId \in selectedItems
                        THEN selectedItems \ {itemId}
                        ELSE selectedItems \cup {itemId}
    /\ UNCHANGED <<gallery, currentFolderId, confirmingDelete, lastResponse>>

handleInitiateDelete ==
    /\ selectedItems # {}
    /\ confirmingDelete' = TRUE
    /\ UNCHANGED <<gallery, currentFolderId, selectedItems, lastResponse>>

handleCancelDelete ==
    /\ confirmingDelete
    /\ confirmingDelete' = FALSE
    /\ UNCHANGED <<gallery, currentFolderId, selectedItems, lastResponse>>

\* handleConfirmDelete with the refresh it awaits; token is whether
\* getToken gave a token
handleConfirmDelete(token) ==
    /\ confirmingDelete
    /\ selectedItems # {}
    /\ confirmingDelete' = FALSE
    /\ IF token
       THEN /\ gallery' = FindOrCreateTrashFolder(DeleteItems(gallery, selectedItems))
            /\ selectedItems' = {}
            /\ lastResponse' = [route |-> "DELETE /gallery/items",
                                status |-> Status("DELETE /gallery/items")]
       ELSE UNCHANGED <<gallery, selectedItems, lastResponse>>
    /\ UNCHANGED currentFolderId

\* handleRestoreSelection: restoreItems throws when the answer is not ok
handleRestoreSelection(token) ==
    /\ isTrashView
    /\ selectedItems # {}
    /\ IF token
       THEN /\ gallery' = RestoreItems(gallery, selectedItems)
            /\ lastResponse' = [route |-> "PUT /gallery/restore",
                                status |-> Status("PUT /gallery/restore")]
            /\ selectedItems' = IF Status("PUT /gallery/restore") = 200
                                THEN {} ELSE selectedItems
       ELSE UNCHANGED <<gallery, selectedItems, lastResponse>>
    /\ UNCHANGED <<currentFolderId, confirmingDelete>>

\* handleDragStart and handleDrop, with the refresh handleDrop awaits
handleDrop(itemId, targetFolderId) ==
    /\ ~isTrashView
    /\ itemId \in Listed(gallery, currentFolderId)
    /\ \/ targetFolderId = RootId
       \/ targetFolderId \in Listed(gallery, currentFolderId) \cap FolderDocs
    /\ LET itemIds == IF itemId \in selectedItems THEN selectedItems ELSE {itemId}
       IN /\ targetFolderId \notin itemIds
          /\ gallery' = FindOrCreateTrashFolder(MoveItems(gallery, itemIds, targetFolderId))
          /\ selectedItems' = {}
          /\ lastResponse' = [route |-> "PUT /gallery/move",
                              status |-> Status("PUT /gallery/move")]
    /\ UNCHANGED <<currentFolderId, confirmingDelete>>

GalleryIdle ==
    /\ gallery = [d \in GalleryDocs |-> Absent]
    /\ currentFolderId = RootId
    /\ selectedItems = {}
    /\ confirmingDelete = FALSE
    /\ lastResponse = NoResponse

(***************************************************************************)
(* The backend's request pipeline (index.ts): the routers in the order     *)
(* they are mounted on /api, with authMiddleware and adminMiddleware. One  *)
(* request is followed from its arrival to its response.                   *)
(***************************************************************************)
VARIABLES
    req                   \* the request: route, Authorization header,
                          \* position in the stack, req.user, response

authVars == <<req>>

BearerPrefix == <<"B", "e", "a", "r", "e", "r", " ">>

\* req.headers.authorization: absent, or a string
AuthHeaders ==
    {[present |-> FALSE, value |-> <<>>]} \cup
    {[present |-> TRUE, value |-> v] :
        v \in {<<>>,
               BearerPrefix \o <<"a">>,
               BearerPrefix \o <<"u">>,
               BearerPrefix \o <<"n">>,
               BearerPrefix \o <<"x">>,
               BearerPrefix,
               <<"b", "e", "a", "r", "e", "r", " ", "a">>,
               <<"B", "a", "s", "i", "c", " ", "a">>,
               <<"B", "e", "a", "r", "e", "r", "a">>,
               BearerPrefix \o <<"a">> \o BearerPrefix \o <<"x">>}}

\* String.prototype.startsWith
StartsWith(s, prefix) ==
    /\ Len(s) >= Len(prefix)
    /\ \A i \in 1..Len(prefix) : s[i] = prefix[i]

\* the least position from which sep occurs in s, or 0
IndexOf(s, sep) ==
    LET at == {i \in 1..(Len(s) - Len(sep) + 1) :
                  SubSeq(s, i, i + Len(sep) - 1) = sep}
    IN IF at = {} THEN 0 ELSE CHOOSE i \in at : \A j \in at : i <= j

\* s.split(sep)[1]: what stands between the first and the second
\* occurrence of sep; [defined |-> FALSE] when sep does not occur
SplitSecond(s, sep) ==
    LET i == IndexOf(s, sep)
    IN IF i = 0 THEN [defined |-> FALSE, value |-> <<>>]
       ELSE LET rest == SubSeq(s, i + Len(sep), Len(s))
                j == IndexOf(rest, sep)
            IN [defined |-> TRUE,
                value |-> IF j = 0 THEN rest ELSE SubSeq(rest, 1, j - 1)]

\* a header check that lets every header that is present go on
HasAnyHeader(authHeader) == authHeader.present /\ authHeader.value # <<>>

\* !(!authHeader || !authHeader.startsWith('Bearer '))
HasBearerToken(authHeader) ==
    /\ authHeader.present
    /\ authHeader.value # <<>>
    /\ StartsWith(authHeader.value, BearerPrefix)

\* authHeader.split('Bearer ')[1]
IdTokenOf(authHeader) == SplitSecond(authHeader.value, BearerPrefix)

NoUser == [set |-> FALSE, uid |-> "", role |-> ""]

\* the tokens auth.verifyIdToken can decode, with their claims; the token
\* of user n carries no role claim
DecodedToken(idToken) ==
    CASE idToken = <<"a">> -> [uid |-> "uid-a", role |-> "admin"]
      [] idToken = <<"u">> -> [uid |-> "uid-u", role |-> "user"]
      [] idToken = <<"n">> -> [uid |-> "uid-n", role |-> "<undefined>"]

ValidTokens == {<<"a">>, <<"u">>, <<"n">>}

Verifiable(idToken) == idToken.defined /\ idToken.value \in ValidTokens

AllRoutes ==
    {"GET /health", "POST /login", "GET /costs", "POST /signup", "POST /users",
     "GET /users", "GET /gallery", "DELETE /gallery/items", "PUT /gallery/move",
     "PUT /gallery/restore", "POST /gemini/generate", "POST /gemini/describe"}

\* the layers of the application: the routes a layer matches and its
\* handlers; a layer of router.use matches every route
Stack ==
    << [match |-> {"GET /health"}, handlers |-> <<"health">>],
       [match |-> {"POST /login"}, handlers |-> <<"loginController">>],
       [match |-> {"GET /costs"},
        handlers |-> <<"authMiddleware", "getCostsController">>],
       [match |-> {"POST /signup"}, handlers |-> <<"signupController">>],
       [match |-> {"POST /users"},
        handlers |-> <<"authMiddleware", "adminMiddleware", "createUserController">>],
       [match |-> {"GET /users"},
        handlers |-> <<"authMiddleware", "adminMiddleware", "getAllUsersController">>],
       [match |-> AllRoutes, handlers |-> <<"authMiddleware">>],
       [match |-> {"GET /gallery"}, handlers |-> <<"getGalleryItemsController">>],
       [match |-> {"DELETE /gallery/items"}, handlers |-> <<"deleteItemsController">>],
       [match |-> {"PUT /gallery/move"}, handlers |-> <<"moveItemsController">>],
       [match |-> AllRoutes, handlers |-> <<"authMiddleware">>],
       [match |-> {"POST /gemini/generate"}, handlers |-> <<"generateContentController">>],
       [match |-> {"POST /gemini/describe"}, handlers |-> <<"describeClothingController">>] >>

Middlewares == {"authMiddleware", "adminMiddleware"}

NoRequest ==
    [route |-> "none", authHeader |-> [present |-> FALSE, value |-> <<>>],
     layer |-> 0, handler |-> 0, user |-> NoUser, verified |-> <<>>,
     status |-> 0, ran |-> "none", seen |-> NoUser, sentBy |-> "none"]

AuthInit == req = NoRequest

\* the first layer from n on that matches the route; Len(Stack) + 1 if none
RECURSIVE MatchFrom(_, _)
MatchFrom(route, n) ==
    IF n > Len(Stack) THEN n
    ELSE IF route \in Stack[n].match THEN n
    ELSE MatchFrom(route, n + 1)

\* next(): the next handler of the layer, or the next matching layer
AfterNext(r) ==
    IF r.handler < Len(Stack[r.layer].handlers)
    THEN [r EXCEPT !.handler = @ + 1]
    ELSE [r EXCEPT !.layer = MatchFrom(r.route, r.layer + 1), !.handler = 1]

InFlightRequest == req.route # "none" /\ req.status = 0

CurrentHandler ==
    IF InFlightRequest /\ req.layer <= Len(Stack)
    THEN Stack[req.layer].handlers[req.handler]
    ELSE "none"

\* a request arrives
Receive(route, authHeader) ==
    /\ ~InFlightRequest
    /\ req' = [NoRequest EXCEPT !.route = route, !.authHeader = authHeader,
                                !.layer = MatchFrom(route, 1), !.handler = 1]

\* authMiddleware: no bearer token in the header
authMiddlewareNoToken ==
    /\ CurrentHandler = "authMiddleware"
    /\ ~HasBearerToken(req.authHeader)
    /\ req' = [req EXCEPT !.status = 401, !.sentBy = "authMiddleware"]

\* authMiddleware: verifyIdToken resolves
authMiddlewareVerified ==
    /\ CurrentHandler = "authMiddleware"
    /\ HasBearerToken(req.authHeader)
    /\ Verifiable(IdTokenOf(req.authHeader))
    /\ LET decodedToken == DecodedToken(IdTokenOf(req.authHeader).value)
       IN req' = AfterNext([req EXCEPT
                    !.user = [set |-> TRUE, uid |-> decodedToken.uid,
                              role |-> decodedToken.role],
                    !.verified = <<IdTokenOf(req.authHeader).value>>])

\* authMiddleware: verifyIdToken rejects, as it does for a token it cannot
\* decode and may do for any token
authMiddlewareRejected ==
    /\ CurrentHandler = "authMiddleware"
    /\ HasBearerToken(req.authHeader)
    /\ req' = [req EXCEPT !.status = 403, !.sentBy = "authMiddleware"]

adminMiddleware ==
    /\ CurrentHandler = "adminMiddleware"
    /\ IF req.user.set /\ req.user.role = "admin"
       THEN req' = AfterNext(req)
       ELSE req' = [req EXCEPT !.status = 403, !.sentBy = "adminMiddleware"]

\* the controller of the route runs and answers
Controller ==
    /\ CurrentHandler \notin Middlewares \cup {"none"}
    /\ req' = [req EXCEPT !.status = 200, !.ran = CurrentHandler,
                          !.seen = req.user, !.sentBy = CurrentHandler]

\* no layer is left: the default handler of Express answers
NotFound ==
    /\ InFlightRequest
    /\ req.layer > Len(Stack)
    /\ req' = [req EXCEPT !.status = 404, !.sentBy = "express"]

AuthIdle == req = NoRequest

(***************************************************************************)
(* handleApiResponse (geminiService): a provider response becomes a data   *)
(* URL or a thrown error. Optional fields carry a 'defined' flag.          *)
(***************************************************************************)
VARIABLES
    response,             \* the GenerateContentResponse
    apiResult             \* what handleApiResponse returned or threw for it

responseVars == <<response, apiResult>>

MaxParts == 2

MaxCandidates == 2

NoInlineData == [defined |-> FALSE, mimeType |-> "", data |-> ""]

ResponseParts ==
    {[inlineData |-> NoInlineData],
     [inlineData |-> [defined |-> TRUE, mimeType |-> "image/png", data |-> "iVBOR"]],
     [inlineData |-> [defined |-> TRUE, mimeType |-> "image/jpeg", data |-> "/9j/4"]]}

PartLists == UNION {[1..n -> ResponseParts] : n \in 0..MaxParts}

\* a candidate: content?.parts and finishReason
Candidates ==
    {[parts |-> [defined |-> d, list |-> l], finishReason |-> f] :
        d \in BOOLEAN, l \in PartLists, f \in {Undefined, "STOP", "SAFETY"}}
    \ {c \in [parts : [defined : {FALSE}, list : PartLists],
              finishReason : {Undefined, "STOP", "SAFETY"}] : c.parts.list # <<>>}

CandidateLists == UNION {[1..n -> Candidates] : n \in 0..MaxCandidates}

Responses ==
    {[promptFeedback |-> [defined |-> pd, blockReason |-> b],
      candidates |-> [defined |-> cd, list |-> cl],
      text |-> t] :
        pd \in BOOLEAN, b \in {Undefined, "", "SAFETY"},
        cd \in BOOLEAN, cl \in CandidateLists, t \in {Undefined, "", "sorry"}}
    \ {r \in [promptFeedback : [defined : BOOLEAN, blockReason : {Undefined, "", "SAFETY"}],
              candidates : [defined : BOOLEAN, list : CandidateLists],
              text : {Undefined, "", "sorry"}] :
         \/ ~r.promptFeedback.defined /\ r.promptFeedback.blockReason # Undefined
         \/ ~r.candidates.defined /\ r.candidates.list # <<>>}

NoApiResult == [kind |-> "none", value |-> <<>>]

ResponseInit ==
    /\ response \in Responses
    /\ apiResult = NoApiResult

\* a part that is returned by find when the last inline part is taken
RECURSIVE FindLastInlinePart(_)
FindLastInlinePart(parts) ==
    IF parts = <<>> THEN NoInlineData
    ELSE IF parts[Len(parts)].inlineData.defined THEN parts[Len(parts)].inlineData
    ELSE FindLastInlinePart(SubSeq(parts, 1, Len(parts) - 1))

\* parts.find(part => part.inlineData) with ?.inlineData
RECURSIVE FindInlinePart(_)
FindInlinePart(parts) ==
    IF parts = <<>> THEN NoInlineData
    ELSE IF Head(parts).inlineData.defined THEN Head(parts).inlineData
    ELSE FindInlinePart(Tail(parts))

\* response.candidates?.[0]
FirstCandidate(r) ==
    IF r.candidates.defined /\ r.candidates.list # <<>>
    THEN [defined |-> TRUE, candidate |-> r.candidates.list[1]]
    ELSE [defined |-> FALSE,
          candidate |-> [parts |-> [defined |-> FALSE, list |-> <<>>],
                         finishReason |-> Undefined]]

\* `data:${mimeType};base64,${data}`
DataUrl(mimeType, data) == <<"data:", mimeType, ";base64,", data>>

handleApiResponse(r) ==
    IF r.promptFeedback.defined /\ Truthy(r.promptFeedback.blockReason)
    THEN [kind |-> "error", value |-> <<"blocked", r.promptFeedback.blockReason>>]
    ELSE LET first == FirstCandidate(r)
             imagePartFromResponse ==
                 IF first.defined /\ first.candidate.parts.defined
                 THEN FindInlinePart(first.candidate.parts.list)
                 ELSE NoInlineData
             finishReason == first.candidate.finishReason
         IN IF imagePartFromResponse.defined
            THEN [kind |-> "dataUrl",
                  value |-> DataUrl(imagePartFromResponse.mimeType,
                                    imagePartFromResponse.data)]
            ELSE IF Truthy(finishReason) /\ finishReason # "STOP"
            THEN [kind |-> "error", value |-> <<"stopped", finishReason>>]
            ELSE [kind |-> "error",
                  value |-> <<"noImage", IF Truthy(r.text) THEN r.text ELSE "">>]

\* a caller passes the response to handleApiResponse
HandleResponse ==
    /\ apiResult = NoApiResult
    /\ apiResult' = handleApiResponse(response)
    /\ UNCHANGED response

ResponseIdle ==
    /\ response = [promptFeedback |-> [defined |-> FALSE, blockReason |-> Undefined],
                   candidates |-> [defined |-> FALSE, list |-> <<>>],
                   text |-> Undefined]
    /\ apiResult = NoApiResult

(***************************************************************************)
(* costService: calculateCost. Amounts are in billionths of a dollar, so   *)
(* that the prices of the program are integers.                            *)
(***************************************************************************)
VARIABLES
    params,               \* the CostCalculationParams of the call
    cost                  \* what calculateCost returned for them, <<>> before

calcVars == <<params, cost>>

\* 0.35 / 1_000_000 dollars
PRICE_PER_INPUT_CHAR == 350

\* 0.70 / 1_000_000 dollars
PRICE_PER_OUTPUT_CHAR == 700

\* 0.000125 dollars
PRICE_PER_INPUT_IMAGE == 125000

\* 0.020 dollars
PRICE_PER_OUTPUT_IMAGE == 20000000

\* 0.00001 dollars
MinimumCharge == 10000

MaxImages == 2

OperationTypes ==
    {"retouch", "model", "expand", "describe", "enhance", "training",
     "correction", "findDifferences"}

\* an optional count of the request shape
Absent0 == [defined |-> FALSE, n |-> 0]

Count(n) == [defined |-> TRUE, n |-> n]

CharCounts == {Absent0} \cup {Count(n) : n \in {0, 1, 28, 29, 1000000}}

ImageCounts == {Absent0} \cup {Count(n) : n \in 0..MaxImages}

CalcInit ==
    /\ params \in [operation : OperationTypes,
                   inputChars : CharCounts, outputChars : CharCounts,
                   inputImages : ImageCounts, outputImages : ImageCounts]
    /\ cost = <<>>

Max(a, b) == IF a >= b THEN a ELSE b

\* if (count) { totalCost += count * price }
AddCost(totalCost, count, price) ==
    IF count.defined /\ count.n # 0 THEN totalCost + count.n * price ELSE totalCost

\* a calculation that leaves out the minimum charge
calculateCostNoMinimum(p) ==
    AddCost(AddCost(AddCost(AddCost(0, p.inputChars, PRICE_PER_INPUT_CHAR),
                            p.outputChars, PRICE_PER_OUTPUT_CHAR),
                    p.inputImages, PRICE_PER_INPUT_IMAGE),
            p.outputImages, PRICE_PER_OUTPUT_IMAGE)

calculateCost(p) ==
    Max(AddCost(AddCost(AddCost(AddCost(0, p.inputChars, PRICE_PER_INPUT_CHAR),
                                p.outputChars, PRICE_PER_OUTPUT_CHAR),
                        p.inputImages, PRICE_PER_INPUT_IMAGE),
                p.outputImages, PRICE_PER_OUTPUT_IMAGE),
        MinimumCharge)

\* a caller computes the cost of its request
CalculateCost ==
    /\ cost = <<>>
    /\ cost' = <<calculateCost(params)>>
    /\ UNCHANGED params

CalcIdle ==
    /\ params = [operation |-> "retouch", inputChars |-> Absent0,
                 outputChars |-> Absent0, inputImages |-> Absent0,
                 outputImages |-> Absent0]
    /\ cost = <<>>

(***************************************************************************)
(* The generation operations of geminiService with their cost logging. A   *)
(* call runs the steps of its operation in order; any step may reject.     *)
(***************************************************************************)
VARIABLES
    costLogs,             \* the records of the cost_logs store, in order
    call                  \* the operation in progress: its steps, the step
                          \* it is at, and the records it has logged

serviceVars == <<costLogs, call>>

MaxCalls == 3

PromptChars == {29, 1000}

\* the steps of an operation: requests to the provider or to the backend,
\* handleApiResponse, and logCost with the operation it logs
StepsOf(operation, withFit) ==
    CASE operation = "enhance" ->
           <<"generateContent", "handleApiResponse", "logCost:enhance">>
      [] operation = "training" ->
           <<"generateContent", "logCost:training">>
      [] operation = "retouch" ->
           <<"generateContent", "handleApiResponse", "logCost:retouch">>
      [] operation = "expand" ->
           <<"generateContent", "handleApiResponse", "logCost:retouch",
             "logCost:expand">>
      [] operation = "model" ->
           (IF withFit THEN <<"generateContent">> ELSE <<>>) \o
           <<"generateContent", "handleApiResponse", "logCost:model">>
      [] operation = "describe" ->
           <<"fetch", "logCost:describe">>

ServiceOperations == {"enhance", "training", "retouch", "expand", "model", "describe"}

\* the operation a logCost step records
LoggedOperation(step) ==
    CASE step = "logCost:enhance" -> "enhance"
      [] step = "logCost:training" -> "training"
      [] step = "logCost:retouch" -> "retouch"
      [] step = "logCost:expand" -> "expand"
      [] step = "logCost:model" -> "model"
      [] step = "logCost:describe" -> "describe"
      [] OTHER -> "none"

\* the request shape each operation passes to calculateCost
ShapeOf(operation, chars, images) ==
    CASE operation = "enhance" ->
           [operation |-> operation, inputChars |-> Count(chars),
            outputChars |-> Absent0, inputImages |-> Count(1),
            outputImages |-> Count(1)]
      [] operation = "training" ->
           [operation |-> operation, inputChars |-> Count(chars),
            outputChars |-> Count(chars), inputImages |-> Absent0,
            outputImages |-> Absent0]
      [] operation = "retouch" ->
           [operation |-> operation, inputChars |-> Count(chars),
            outputChars |-> Absent0, inputImages |-> Count(images),
            outputImages |-> Count(1)]
      [] operation = "expand" ->
           [operation |-> operation, inputChars |-> Count(chars),
            outputChars |-> Absent0, inputImages |-> Count(2),
            outputImages |-> Count(1)]
      [] operation = "model" ->
           [operation |-> operation, inputChars |-> Count(chars),
            outputChars |-> Absent0, inputImages |-> Count(images),
            outputImages |-> Count(1)]
      [] operation = "describe" ->
           [operation |-> operation, inputChars |-> Count(0),
            outputChars |-> Count(chars), inputImages |-> Count(images),
            outputImages |-> Absent0]

NoCall ==
    [operation |-> "none", steps |-> <<>>, at |-> 0, chars |-> 0, images |-> 0,
     logged |-> 0, outcome |-> "none"]

ServiceInit ==
    /\ costLogs = <<>>
    /\ call = NoCall

Running == call.operation # "none" /\ call.outcome = "none"

CurrentStep ==
    IF Running /\ call.at <= Len(call.steps) THEN call.steps[call.at] ELSE "none"

\* a component calls an operation of the service; an operation called by
\* expandImage has a mask, so two input images
CallService(operation, withFit, chars, images) ==
    /\ ~Running
    /\ Len(costLogs) < MaxCalls
    /\ operation = "expand" => images = 2
    /\ call' = [operation |-> operation, steps |-> StepsOf(operation, withFit),
                at |-> 1, chars |-> chars, images |-> images, logged |-> 0,
                outcome |-> "none"]
    /\ UNCHANGED costLogs

\* the provider, or the backend, answers the request of the step
RequestAnswered ==
    /\ CurrentStep \in {"generateContent", "fetch"}
    /\ call' = [call EXCEPT !.at = @ + 1]
    /\ UNCHANGED costLogs

\* handleApiResponse returns a data URL
ResponseHandled ==
    /\ CurrentStep = "handleApiResponse"
    /\ call' = [call EXCEPT !.at = @ + 1]
    /\ UNCHANGED costLogs

\* calculateCost and logCost, whose transaction completes
logCost ==
    /\ LoggedOperation(CurrentStep) # "none"
    /\ costLogs' = Append(costLogs,
           [operation |-> LoggedOperation(CurrentStep),
            cost |-> calculateCost(ShapeOf(LoggedOperation(CurrentStep),
                                           call.chars, call.images))])
    /\ call' = [call EXCEPT !.at = @ + 1, !.logged = @ + 1]

\* the await of the step rejects, or handleApiResponse throws
StepRejected ==
    /\ CurrentStep # "none"
    /\ call' = [call EXCEPT !.outcome = "failed"]
    /\ UNCHANGED costLogs

\* the operation returns its result
CallReturns ==
    /\ Running
    /\ call.at > Len(call.steps)
    /\ call' = [call EXCEPT !.outcome = "done"]
    /\ UNCHANGED costLogs

ServiceIdle ==
    /\ costLogs = <<>>
    /\ call = NoCall

(***************************************************************************)
(* The spreadsheet of the batch (handleExcelUpload) and what processItem   *)
(* takes from it. Texts are tuples of characters; the eleven characters of *)
(* '[Planilha]:' are one element, and "\n" is the line feed.               *)
(***************************************************************************)
VARIABLES
    excelData,            \* [loaded, map]: null, or the Map of SKU -> row data
    sheetQueue,           \* the queue items: baseName, metadata, clothingNotes, excelMatch
    loads,                \* number of spreadsheets loaded so far
    generation            \* what the processItem call that ends the behaviour
                          \* put into its prompts

sheetVars == <<excelData, sheetQueue, loads, generation>>

\* spreadsheets loaded in one behaviour
MaxLoads == 2

\* data rows of a spreadsheet
MaxRows == 2

PlanilhaPrefix == "[Planilha]:"

\* rows[0] of the spreadsheets: the SKU column is the first, then the columns below
SheetHeaders == {"OBS_ROUPA", "Notas"}

\* row[0] of the data rows
SkuCells == {<<"a", " ", "1">>, <<" ">>}

\* a cell that is empty in the file (null or undefined in the array of the row)
NoCell == [present |-> FALSE, text |-> <<>>]

Cell(text) == [present |-> TRUE, text |-> text]

\* the cells of the two columns
CellsOf(header) ==
    IF header = "Notas"
    THEN {NoCell, Cell(<<>>), Cell(<<"x", " ">>), Cell(<<"x", "\n", "y">>)}
    ELSE {NoCell, Cell(<<"o">>)}

DataRows ==
    {[sku |-> s, cells |-> [h \in SheetHeaders |-> IF h = "Notas" THEN n ELSE o]] :
        s \in SkuCells, n \in CellsOf("Notas"), o \in CellsOf("OBS_ROUPA")}

Sheets == UNION {[1..n -> DataRows] : n \in 0..MaxRows}

\* item.metadata of an item that has none
NoRowData == [defined |-> FALSE, cells |-> [h \in SheetHeaders |-> NoCell]]

\* the clothing notes the user types
ManualNotes ==
    {<<>>, <<"m">>, <<" ", "m", "\n">>, <<PlanilhaPrefix, " ", "m">>}

BaseNames == <<(<<"A", "-", "1">>), (<<"C">>)>>

NoGeneration == [item |-> 0, metadata |-> NoRowData, clothingNotes |-> <<>>]

SheetInit ==
    /\ excelData = [loaded |-> FALSE, map |-> <<>>]
    /\ sheetQueue \in
           {[i \in 1..Len(BaseNames) |->
                [baseName |-> BaseNames[i], metadata |-> NoRowData,
                 clothingNotes |-> notes[i], excelMatch |-> FALSE]] :
              notes \in [1..Len(BaseNames) -> ManualNotes]}
    /\ loads = 0
    /\ generation = NoGeneration

\* \s of String.prototype.trim on the texts of the notes
IsWhiteSpace(c) == c = " " \/ c = "\n"

RECURSIVE TrimWhiteStart(_)
TrimWhiteStart(s) ==
    IF s # <<>> /\ IsWhiteSpace(Head(s)) THEN TrimWhiteStart(Tail(s)) ELSE s

RECURSIVE TrimWhiteEnd(_)
TrimWhiteEnd(s) ==
    IF s # <<>> /\ IsWhiteSpace(s[Len(s)])
    THEN TrimWhiteEnd(SubSeq(s, 1, Len(s) - 1))
    ELSE s

\* String.prototype.trim
TrimWhite(s) == TrimWhiteEnd(TrimWhiteStart(s))

RECURSIVE SplitLines(_, _)
\* s.split('\n'): line is the text of the current line read so far
SplitLines(s, line) ==
    IF s = <<>> THEN <<line>>
    ELSE IF Head(s) = "\n" THEN <<line>> \o SplitLines(Tail(s), <<>>)
    ELSE SplitLines(Tail(s), Append(line, Head(s)))

RECURSIVE JoinLines(_)
\* lines.join('\n')
JoinLines(lines) ==
    IF lines = <<>> THEN <<>>
    ELSE IF Len(lines) = 1 THEN lines[1]
    ELSE lines[1] \o <<"\n">> \o JoinLines(Tail(lines))

\* line.startsWith('[Planilha]:')
StartsWithPlanilha(line) == line # <<>> /\ line[1] = PlanilhaPrefix

RECURSIVE FilterManual(_)
\* .filter(line => !line.startsWith('[Planilha]:'))
FilterManual(lines) ==
    IF lines = <<>> THEN <<>>
    ELSE (IF StartsWithPlanilha(Head(lines)) THEN <<>> ELSE <<Head(lines)>>)
         \o FilterManual(Tail(lines))

\* the row data of a data row: the cells that are present, trimmed
RowData(row) ==
    [defined |-> TRUE,
     cells |-> [h \in SheetHeaders |->
                   IF row.cells[h].present
                   THEN Cell(TrimWhite(row.cells[h].text))
                   ELSE NoCell]]

RECURSIVE DataMapFrom(_, _, _)
\* dataRows.forEach(row => { const sku = normalizeSku(row[0]); if (sku) dataMap.set(sku, rowData) })
DataMapFrom(rows, n, map) ==
    IF n > Len(rows) THEN map
    ELSE LET sku == normalizeSku(rows[n].sku)
         IN DataMapFrom(rows, n + 1,
                IF sku = <<>> THEN map
                ELSE [k \in DOMAIN map \cup {sku} |->
                         IF k = sku THEN RowData(rows[n]) ELSE map[k]])

\* the Map handleExcelUpload builds from the rows of the file
DataMap(rows) == DataMapFrom(rows, 1, <<>>)

\* dataMap.get(sku), undefined when the Map has no such key
MapGet(map, sku) == IF sku \in DOMAIN map THEN map[sku] ELSE NoRowData

\* the keys findValue looks up for the clothing notes, in this order (the
\* fourth is written here without its cedilla and tilde)
ClothingNoteKeys ==
    <<"observacoes_roupa", "clothing_notes", "obs_roupa", "observacoes",
      "observacao", "notas", "detalhes">>

RECURSIVE FindValueFrom(_, _, _)
\* findValue(keys, data) from the n-th key on: the first key with a header
\* that equals it in lower case and a cell that is not empty
FindValueFrom(keys, data, n) ==
    IF n > Len(keys) THEN NoCell
    ELSE LET metaKeys == {h \in SheetHeaders :
                             /\ data.cells[h].present
                             /\ ToLowerCase(h) = ToLowerCase(keys[n])}
         IN IF /\ metaKeys # {}
               /\ data.cells[CHOOSE h \in metaKeys : TRUE].text # <<>>
            THEN data.cells[CHOOSE h \in metaKeys : TRUE]
            ELSE FindValueFrom(keys, data, n + 1)

FindValue(keys, data) == FindValueFrom(keys, data, 1)

\* the part of the notes that handleExcelUpload keeps as manual notes
ManualNotesOf(clothingNotes) ==
    TrimWhite(JoinLines(FilterManual(SplitLines(clothingNotes, <<>>))))

\* newClothingNotes of handleExcelUpload
NewClothingNotes(clothingNotes, rowData) ==
    IF ~rowData.defined THEN clothingNotes
    ELSE LET excelClothingNotes == FindValue(ClothingNoteKeys, rowData)
             manualNotes == ManualNotesOf(clothingNotes)
         IN IF excelClothingNotes.present
            THEN manualNotes \o (IF manualNotes # <<>> THEN <<"\n">> ELSE <<>>)
                     \o <<PlanilhaPrefix, " ">> \o excelClothingNotes.text
            ELSE manualNotes

\* the item handleExcelUpload returns for an item of the queue
ReEvaluated(item, dataMap) ==
    LET rowData == MapGet(dataMap, normalizeSku(item.baseName))
    IN [item EXCEPT !.metadata = IF rowData.defined THEN rowData ELSE item.metadata,
                    !.clothingNotes = NewClothingNotes(item.clothingNotes, rowData),
                    !.excelMatch = rowData.defined]

\* reader.onload of handleExcelUpload for a file with these data rows
handleExcelUpload(rows) ==
    /\ generation = NoGeneration
    /\ loads < MaxLoads
    /\ loads' = loads + 1
    /\ LET dataMap == DataMap(rows)
       IN /\ excelData' = [loaded |-> TRUE, map |-> dataMap]
          /\ sheetQueue' = [i \in DOMAIN sheetQueue |-> ReEvaluated(sheetQueue[i], dataMap)]
    /\ UNCHANGED generation

\* the user edits the clothing notes of an item
handleClothingNotesChange(i, notes) ==
    /\ generation = NoGeneration
    /\ sheetQueue' = [sheetQueue EXCEPT ![i].clothingNotes = notes]
    /\ UNCHANGED <<excelData, loads, generation>>

\* processItem builds its prompts: the model notes from item.metadata when
\* the item has one, the additional observations from item.clothingNotes
ProcessItemNotes(i) ==
    /\ generation = NoGeneration
    /\ generation' = [item |-> i, metadata |-> sheetQueue[i].metadata,
                      clothingNotes |-> sheetQueue[i].clothingNotes]
    /\ UNCHANGED <<excelData, sheetQueue, loads>>

SheetIdle ==
    /\ excelData = [loaded |-> FALSE, map |-> <<>>]
    /\ sheetQueue = <<>>
    /\ loads = 0
    /\ generation = NoGeneration

(***************************************************************************)
(* The brand folders of a batch: each processItem run looks its folder up  *)
(* with findOrCreateFolder before it generates, and stores its results in  *)
(* it. The runs of a chunk are in flight together.                         *)
(***************************************************************************)
VARIABLES
    folderDocs,           \* the folder documents under root: [id, name]
    lookups,              \* item -> [pc, brand, parentId] of its processItem run
    storedIn              \* item -> <<>>, or <<parentId>> of its stored results

folderVars == <<folderDocs, lookups, storedIn>>

\* items of the batch
MaxBrandItems == 4

\* let parentId = 'root'
RootParent == 0

\* itemBrand of the items, before the trim
ItemBrands == {<<>>, <<"a">>, <<"a", " ">>, <<"b">>}

FolderInit ==
    /\ folderDocs \in {{}, {[id |-> 1, name |-> <<"a">>]}}
    /\ lookups \in {[i \in 1..n |-> [pc |-> "queued", brand |-> brands[i],
                                     parentId |-> RootParent]] :
                      n \in 2..MaxBrandItems,
                      brands \in [1..MaxBrandItems -> ItemBrands]}
    /\ storedIn = [i \in DOMAIN lookups |-> <<>>]

\* the chunk of item i: itemsToProcess.slice(c, c + CONCURRENCY_LIMIT)
ChunkOf(i) == (i - 1) \div CONCURRENCY_LIMIT

\* the runs of the earlier chunks have returned
ChunkStarted(i) ==
    \A j \in DOMAIN lookups :
        ChunkOf(j) < ChunkOf(i) => lookups[j].pc \in {"done", "error"}

\* items.find(item => item.type === 'folder' && item.name === name), on the
\* folders in the order of their creation
ExistingFolder(name) ==
    LET found == {f \in folderDocs : f.name = name}
    IN IF found = {} THEN RootParent
       ELSE (CHOOSE f \in found : \A g \in found : f.id <= g.id).id

\* processItem up to its first await: an item without a brand keeps 'root'
\* and goes on, an item with a brand sends the request of getGalleryItems
StartLookup(i) ==
    /\ lookups[i].pc = "queued"
    /\ ChunkStarted(i)
    /\ lookups' = [lookups EXCEPT ![i].pc =
                      IF Trim(lookups[i].brand) = <<>> THEN "store" ELSE "list"]
    /\ UNCHANGED <<folderDocs, storedIn>>

\* getGalleryItems is answered: findOrCreateFolder returns the folder it
\* finds, or sends the request of createFolder
ListAnswered(i) ==
    LET existing == ExistingFolder(Trim(lookups[i].brand))
    IN /\ IF existing # RootParent
          THEN lookups' = [lookups EXCEPT ![i].pc = "store", ![i].parentId = existing]
          ELSE lookups' = [lookups EXCEPT ![i].pc = "create"]
       /\ UNCHANGED folderDocs

\* the step of item i at the await of getGalleryItems
FolderListed(i) ==
    /\ lookups[i].pc = "list"
    /\ ListAnswered(i)
    /\ UNCHANGED storedIn

\* createFolderController adds a folder document and answers with its id
FolderCreated(i) ==
    /\ lookups[i].pc = "create"
    /\ LET id == Cardinality(folderDocs) + 1
       IN /\ folderDocs' = folderDocs \cup
                 {[id |-> id, name |-> Trim(lookups[i].brand)]}
          /\ lookups' = [lookups EXCEPT ![i].pc = "store", ![i].parentId = id]
    /\ UNCHANGED storedIn

\* generation is over and addImageToStorage has stored the results in parentId
ResultsStored(i) ==
    /\ lookups[i].pc = "store"
    /\ storedIn' = [storedIn EXCEPT ![i] = <<lookups[i].parentId>>]
    /\ lookups' = [lookups EXCEPT ![i].pc = "done"]
    /\ UNCHANGED folderDocs

\* a request of the run fails: the catch block sets the item 'error'
LookupFails(i) ==
    /\ lookups[i].pc \in {"list", "create", "store"}
    /\ lookups' = [lookups EXCEPT ![i].pc = "error"]
    /\ UNCHANGED <<folderDocs, storedIn>>

FolderIdle ==
    /\ folderDocs = {}
    /\ lookups = <<>>
    /\ storedIn = <<>>

(***************************************************************************)
(* The all-files listing (GET /gallery/all-files): the gallery's file      *)
(* documents and the answer of getAllFilesController to one request that   *)
(* has passed authMiddleware.                                              *)
(***************************************************************************)
VARIABLES
    fileDocs,             \* the file documents of the gallery: [id, uid]
    listing               \* the last request to the listing and its answer

fileVars == <<fileDocs, listing>>

\* file documents in the collection
MaxFileDocs == 3

\* a query parameter: absent, or a string
NoParam == [present |-> FALSE, value |-> ""]

Param(value) == [present |-> TRUE, value |-> value]

\* req.query.userId
UserIdParams ==
    {NoParam, Param(""), Param("undefined"),
     Param("uid-a"), Param("uid-u"), Param("uid-n")}

\* req.query.isAdmin
IsAdminParams == {NoParam, Param("true"), Param("false"), Param("TRUE")}

\* req.user as authMiddleware sets it from a verified token
VerifiedUsers ==
    {[set |-> TRUE, uid |-> DecodedToken(t).uid, role |-> DecodedToken(t).role] :
        t \in ValidTokens}

NoListing ==
    [status |-> 0, user |-> NoUser, userId |-> NoParam, isAdmin |-> NoParam,
     files |-> {}]

FilesInit ==
    /\ fileDocs = {}
    /\ listing = NoListing

\* uploadImageController: the authenticated user stores a file
uploadImageController(user) ==
    /\ Cardinality(fileDocs) < MaxFileDocs
    /\ fileDocs' = fileDocs \cup {[id |-> Cardinality(fileDocs) + 1, uid |-> user.uid]}
    /\ UNCHANGED listing

\* the truthiness of a query parameter
TruthyParam(param) == param.present /\ param.value # ""

\* const isAdmin = req.query.isAdmin === 'true'
IsAdminFlag(isAdmin) == isAdmin.present /\ isAdmin.value = "true"

\* the uid the query filters on
QueriedUid(user, userId, isAdmin) ==
    IF /\ IsAdminFlag(isAdmin)
       /\ TruthyParam(userId)
       /\ userId.value # "undefined"
    THEN userId.value
    ELSE user.uid

\* getAllFilesController answers 200 with the files of the queried uid
getAllFilesController(user, userId, isAdmin) ==
    /\ listing' = [status |-> 200, user |-> user, userId |-> userId,
                   isAdmin |-> isAdmin,
                   files |-> {f \in fileDocs :
                                 f.uid = QueriedUid(user, userId, isAdmin)}]
    /\ UNCHANGED fileDocs

\* the query throws: the catch block answers 500
getAllFilesFails(user, userId, isAdmin) ==
    /\ listing' = [status |-> 500, user |-> user, userId |-> userId,
                   isAdmin |-> isAdmin, files |-> {}]
    /\ UNCHANGED fileDocs

FilesIdle ==
    /\ fileDocs = {}
    /\ listing = NoListing

(***************************************************************************)
(* The specifications. Each one runs one of the state machines and leaves  *)
(* the state of the others as it is.                                       *)
(***************************************************************************)
vars == <<batchVars, settingsVars, uploadVars, editorVars, galleryVars, authVars, responseVars, calcVars, serviceVars, sheetVars, folderVars, fileVars>>

Init ==
    /\ BatchInit
    /\ SettingsIdle
    /\ UploadIdle
    /\ EditorIdle
    /\ GalleryIdle
    /\ AuthIdle
    /\ ResponseIdle
    /\ CalcIdle
    /\ ServiceIdle
    /\ SheetIdle
    /\ FolderIdle
    /\ FilesIdle

Next ==
    \/ ProcessQueueStart
          /\ UNCHANGED <<settingsVars, uploadVars, editorVars, galleryVars, authVars, responseVars, calcVars, serviceVars, sheetVars, folderVars, fileVars>>
    \/ \E b \in 1..Len(batches) : ProcessQueueTokenOk(b)
          /\ UNCHANGED <<settingsVars, uploadVars, editorVars, galleryVars, authVars, responseVars, calcVars, serviceVars, sheetVars, folderVars, fileVars>>
    \/ \E b \in 1..Len(batches) : ProcessQueueTokenFail(b)
          /\ UNCHANGED <<settingsVars, uploadVars, editorVars, galleryVars, authVars, responseVars, calcVars, serviceVars, sheetVars, folderVars, fileVars>>
    \/ \E b \in 1..Len(batches) : ProcessQueueNextChunk(b)
          /\ UNCHANGED <<settingsVars, uploadVars, editorVars, galleryVars, authVars, responseVars, calcVars, serviceVars, sheetVars, folderVars, fileVars>>
    \/ \E r \in runs : PrepOk(r)
          /\ UNCHANGED <<settingsVars, uploadVars, editorVars, galleryVars, authVars, responseVars, calcVars, serviceVars, sheetVars, folderVars, fileVars>>
    \/ \E r \in runs : EnhanceOk(r)
          /\ UNCHANGED <<settingsVars, uploadVars, editorVars, galleryVars, authVars, responseVars, calcVars, serviceVars, sheetVars, folderVars, fileVars>>
    \/ \E r \in runs : GenerateOk(r)
          /\ UNCHANGED <<settingsVars, uploadVars, editorVars, galleryVars, authVars, responseVars, calcVars, serviceVars, sheetVars, folderVars, fileVars>>
    \/ \E r \in runs : FinalizeOk(r)
          /\ UNCHANGED <<settingsVars, uploadVars, editorVars, galleryVars, authVars, responseVars, calcVars, serviceVars, sheetVars, folderVars, fileVars>>
    \/ \E r \in runs : StoreOk(r)
          /\ UNCHANGED <<settingsVars, uploadVars, editorVars, galleryVars, authVars, responseVars, calcVars, serviceVars, sheetVars, folderVars, fileVars>>
    \/ \E r \in runs : ItemFail(r)
          /\ UNCHANGED <<settingsVars, uploadVars, editorVars, galleryVars, authVars, responseVars, calcVars, serviceVars, sheetVars, folderVars, fileVars>>
    \/ handleCancelProcessing
          /\ UNCHANGED <<settingsVars, uploadVars, editorVars, galleryVars, authVars, responseVars, calcVars, serviceVars, sheetVars, folderVars, fileVars>>
    \/ \E i \in DOMAIN queue : handleCancelSingleItem(i)
          /\ UNCHANGED <<settingsVars, uploadVars, editorVars, galleryVars, authVars, responseVars, calcVars, serviceVars, sheetVars, folderVars, fileVars>>
    \/ \E i \in DOMAIN queue : handleProcessSingleItem(i)
          /\ UNCHANGED <<settingsVars, uploadVars, editorVars, galleryVars, authVars, responseVars, calcVars, serviceVars, sheetVars, folderVars, fileVars>>

Spec == Init /\ [][Next]_vars

\* Every pending await of processQueue and of processItem settles: the token
\* refresh and the requests are answered or fail, and a continuation that is
\* ready runs. The clicks of the user are not subject to fairness.
AwaitSettles ==
    \/ \E b \in 1..Len(batches) : ProcessQueueTokenOk(b)
          /\ UNCHANGED <<settingsVars, uploadVars, editorVars, galleryVars, authVars, responseVars, calcVars, serviceVars, sheetVars, folderVars, fileVars>>
    \/ \E b \in 1..Len(batches) : ProcessQueueTokenFail(b)
          /\ UNCHANGED <<settingsVars, uploadVars, editorVars, galleryVars, authVars, responseVars, calcVars, serviceVars, sheetVars, folderVars, fileVars>>
    \/ \E b \in 1..Len(batches) : ProcessQueueNextChunk(b)
          /\ UNCHANGED <<settingsVars, uploadVars, editorVars, galleryVars, authVars, responseVars, calcVars, serviceVars, sheetVars, folderVars, fileVars>>
    \/ \E r \in runs : PrepOk(r)
          /\ UNCHANGED <<settingsVars, uploadVars, editorVars, galleryVars, authVars, responseVars, calcVars, serviceVars, sheetVars, folderVars, fileVars>>
    \/ \E r \in runs : EnhanceOk(r)
          /\ UNCHANGED <<settingsVars, uploadVars, editorVars, galleryVars, authVars, responseVars, calcVars, serviceVars, sheetVars, folderVars, fileVars>>
    \/ \E r \in runs : GenerateOk(r)
          /\ UNCHANGED <<settingsVars, uploadVars, editorVars, galleryVars, authVars, responseVars, calcVars, serviceVars, sheetVars, folderVars, fileVars>>
    \/ \E r \in runs : FinalizeOk(r)
          /\ UNCHANGED <<settingsVars, uploadVars, editorVars, galleryVars, authVars, responseVars, calcVars, serviceVars, sheetVars, folderVars, fileVars>>
    \/ \E r \in runs : StoreOk(r)
          /\ UNCHANGED <<settingsVars, uploadVars, editorVars, galleryVars, authVars, responseVars, calcVars, serviceVars, sheetVars, folderVars, fileVars>>
    \/ \E r \in runs : ItemFail(r)
          /\ UNCHANGED <<settingsVars, uploadVars, editorVars, galleryVars, authVars, responseVars, calcVars, serviceVars, sheetVars, folderVars, fileVars>>

SpecFair == Init /\ [][Next]_vars /\ WF_vars(AwaitSettles)

InitSettings ==
    /\ SettingsInit
    /\ BatchIdle
    /\ UploadIdle
    /\ EditorIdle
    /\ GalleryIdle
    /\ AuthIdle
    /\ ResponseIdle
    /\ CalcIdle
    /\ ServiceIdle
    /\ SheetIdle
    /\ FolderIdle
    /\ FilesIdle

SettingsNext ==
    \/ \E g \in Genders : handleItemModelGenderChange(g)
          /\ UNCHANGED <<batchVars, uploadVars, editorVars, galleryVars, authVars, responseVars, calcVars, serviceVars, sheetVars, folderVars, fileVars>>
    \/ \E a \in ItemAges : handleItemModelAgeChange(a)
          /\ UNCHANGED <<batchVars, uploadVars, editorVars, galleryVars, authVars, responseVars, calcVars, serviceVars, sheetVars, folderVars, fileVars>>
    \/ ProcessItemSettings
          /\ UNCHANGED <<batchVars, uploadVars, editorVars, galleryVars, authVars, responseVars, calcVars, serviceVars, sheetVars, folderVars, fileVars>>

SpecSettings == InitSettings /\ [][SettingsNext]_vars

InitUpload ==
    /\ UploadInit
    /\ BatchRest
    /\ SettingsIdle
    /\ EditorIdle
    /\ GalleryIdle
    /\ AuthIdle
    /\ ResponseIdle
    /\ CalcIdle
    /\ ServiceIdle
    /\ SheetIdle
    /\ FolderIdle
    /\ FilesIdle

UploadNext ==
    \/ \E files \in FileLists : handleFiles(files)
          /\ UNCHANGED <<settingsVars, editorVars, galleryVars, authVars, responseVars, calcVars, serviceVars, sheetVars, folderVars, fileVars>>

SpecUpload == InitUpload /\ [][UploadNext]_vars

InitCanvas ==
    /\ EditorInit
    /\ BatchIdle
    /\ SettingsIdle
    /\ UploadIdle
    /\ GalleryIdle
    /\ AuthIdle
    /\ ResponseIdle
    /\ CalcIdle
    /\ ServiceIdle
    /\ SheetIdle
    /\ FolderIdle
    /\ FilesIdle

CanvasNext ==
    \/ \E p \in Pointers, pos \in Points : handlePointerDown(p, pos)
          /\ UNCHANGED <<batchVars, settingsVars, uploadVars, galleryVars, authVars, responseVars, calcVars, serviceVars, sheetVars, folderVars, fileVars>>
    \/ \E p \in Pointers, pos \in Points : handlePointerMove(p, pos)
          /\ UNCHANGED <<batchVars, settingsVars, uploadVars, galleryVars, authVars, responseVars, calcVars, serviceVars, sheetVars, folderVars, fileVars>>
    \/ \E p \in Pointers : handlePointerUp(p)
          /\ UNCHANGED <<batchVars, settingsVars, uploadVars, galleryVars, authVars, responseVars, calcVars, serviceVars, sheetVars, folderVars, fileVars>>

SpecCanvas == InitCanvas /\ [][CanvasNext]_vars

InitEditor ==
    /\ EditorInit
    /\ BatchIdle
    /\ SettingsIdle
    /\ UploadIdle
    /\ GalleryIdle
    /\ AuthIdle
    /\ ResponseIdle
    /\ CalcIdle
    /\ ServiceIdle
    /\ SheetIdle
    /\ FolderIdle
    /\ FilesIdle

EditorNext ==
    \/ \E pos \in Points : handleHotspotClick(pos)
          /\ UNCHANGED <<batchVars, settingsVars, uploadVars, galleryVars, authVars, responseVars, calcVars, serviceVars, sheetVars, folderVars, fileVars>>
    \/ handleMaskUpdate(CanvasDataUrl)
          /\ UNCHANGED <<batchVars, settingsVars, uploadVars, galleryVars, authVars, responseVars, calcVars, serviceVars, sheetVars, folderVars, fileVars>>
    \/ \E text \in BOOLEAN : setPrompt(text)
          /\ UNCHANGED <<batchVars, settingsVars, uploadVars, galleryVars, authVars, responseVars, calcVars, serviceVars, sheetVars, folderVars, fileVars>>
    \/ handleGenerate
          /\ UNCHANGED <<batchVars, settingsVars, uploadVars, galleryVars, authVars, responseVars, calcVars, serviceVars, sheetVars, folderVars, fileVars>>
    \/ handleApplyResize
          /\ UNCHANGED <<batchVars, settingsVars, uploadVars, galleryVars, authVars, responseVars, calcVars, serviceVars, sheetVars, folderVars, fileVars>>
    \/ handleApplyCrop
          /\ UNCHANGED <<batchVars, settingsVars, uploadVars, galleryVars, authVars, responseVars, calcVars, serviceVars, sheetVars, folderVars, fileVars>>
    \/ \E o \in ops : OpPrepared(o)
          /\ UNCHANGED <<batchVars, settingsVars, uploadVars, galleryVars, authVars, responseVars, calcVars, serviceVars, sheetVars, folderVars, fileVars>>
    \/ \E o \in ops : OpResponded(o)
          /\ UNCHANGED <<batchVars, settingsVars, uploadVars, galleryVars, authVars, responseVars, calcVars, serviceVars, sheetVars, folderVars, fileVars>>
    \/ \E o \in ops : OpStored(o)
          /\ UNCHANGED <<batchVars, settingsVars, uploadVars, galleryVars, authVars, responseVars, calcVars, serviceVars, sheetVars, folderVars, fileVars>>
    \/ \E o \in ops : OpFailed(o)
          /\ UNCHANGED <<batchVars, settingsVars, uploadVars, galleryVars, authVars, responseVars, calcVars, serviceVars, sheetVars, folderVars, fileVars>>
    \/ LoadingTimeout
          /\ UNCHANGED <<batchVars, settingsVars, uploadVars, galleryVars, authVars, responseVars, calcVars, serviceVars, sheetVars, folderVars, fileVars>>
    \/ clearMask
          /\ UNCHANGED <<batchVars, settingsVars, uploadVars, galleryVars, authVars, responseVars, calcVars, serviceVars, sheetVars, folderVars, fileVars>>
    \/ handleUndo
          /\ UNCHANGED <<batchVars, settingsVars, uploadVars, galleryVars, authVars, responseVars, calcVars, serviceVars, sheetVars, folderVars, fileVars>>
    \/ handleRedo
          /\ UNCHANGED <<batchVars, settingsVars, uploadVars, galleryVars, authVars, responseVars, calcVars, serviceVars, sheetVars, folderVars, fileVars>>
    \/ handleReset
          /\ UNCHANGED <<batchVars, settingsVars, uploadVars, galleryVars, authVars, responseVars, calcVars, serviceVars, sheetVars, folderVars, fileVars>>

SpecEditor == InitEditor /\ [][EditorNext]_vars

InitGallery ==
    /\ GalleryInit
    /\ BatchIdle
    /\ SettingsIdle
    /\ UploadIdle
    /\ EditorIdle
    /\ AuthIdle
    /\ ResponseIdle
    /\ CalcIdle
    /\ ServiceIdle
    /\ SheetIdle
    /\ FolderIdle
    /\ FilesIdle

GalleryNext ==
    \/ \E folderId \in FolderDocs \cup {RootId} : handleNavigate(folderId)
          /\ UNCHANGED <<batchVars, settingsVars, uploadVars, editorVars, authVars, responseVars, calcVars, serviceVars, sheetVars, folderVars, fileVars>>
    \/ \E itemId \in GalleryDocs : handleCheckboxToggle(itemId)
          /\ UNCHANGED <<batchVars, settingsVars, uploadVars, editorVars, authVars, responseVars, calcVars, serviceVars, sheetVars, folderVars, fileVars>>
    \/ handleInitiateDelete
          /\ UNCHANGED <<batchVars, settingsVars, uploadVars, editorVars, authVars, responseVars, calcVars, serviceVars, sheetVars, folderVars, fileVars>>
    \/ handleCancelDelete
          /\ UNCHANGED <<batchVars, settingsVars, uploadVars, editorVars, authVars, responseVars, calcVars, serviceVars, sheetVars, folderVars, fileVars>>
    \/ \E token \in BOOLEAN : handleConfirmDelete(token)
          /\ UNCHANGED <<batchVars, settingsVars, uploadVars, editorVars, authVars, responseVars, calcVars, serviceVars, sheetVars, folderVars, fileVars>>
    \/ \E token \in BOOLEAN : handleRestoreSelection(token)
          /\ UNCHANGED <<batchVars, settingsVars, uploadVars, editorVars, authVars, responseVars, calcVars, serviceVars, sheetVars, folderVars, fileVars>>
    \/ \E itemId \in GalleryDocs, targetFolderId \in FolderDocs \cup {RootId} : handleDrop(itemId, targetFolderId)
          /\ UNCHANGED <<batchVars, settingsVars, uploadVars, editorVars, authVars, responseVars, calcVars, serviceVars, sheetVars, folderVars, fileVars>>

SpecGallery == InitGallery /\ [][GalleryNext]_vars

InitAuth ==
    /\ AuthInit
    /\ BatchIdle
    /\ SettingsIdle
    /\ UploadIdle
    /\ EditorIdle
    /\ GalleryIdle
    /\ ResponseIdle
    /\ CalcIdle
    /\ ServiceIdle
    /\ SheetIdle
    /\ FolderIdle
    /\ FilesIdle

AuthNext ==
    \/ \E route \in AllRoutes, authHeader \in AuthHeaders : Receive(route, authHeader)
          /\ UNCHANGED <<batchVars, settingsVars, uploadVars, editorVars, galleryVars, responseVars, calcVars, serviceVars, sheetVars, folderVars, fileVars>>
    \/ authMiddlewareNoToken
          /\ UNCHANGED <<batchVars, settingsVars, uploadVars, editorVars, galleryVars, responseVars, calcVars, serviceVars, sheetVars, folderVars, fileVars>>
    \/ authMiddlewareVerified
          /\ UNCHANGED <<batchVars, settingsVars, uploadVars, editorVars, galleryVars, responseVars, calcVars, serviceVars, sheetVars, folderVars, fileVars>>
    \/ authMiddlewareRejected
          /\ UNCHANGED <<batchVars, settingsVars, uploadVars, editorVars, galleryVars, responseVars, calcVars, serviceVars, sheetVars, folderVars, fileVars>>
    \/ adminMiddleware
          /\ UNCHANGED <<batchVars, settingsVars, uploadVars, editorVars, galleryVars, responseVars, calcVars, serviceVars, sheetVars, folderVars, fileVars>>
    \/ Controller
          /\ UNCHANGED <<batchVars, settingsVars, uploadVars, editorVars, galleryVars, responseVars, calcVars, serviceVars, sheetVars, folderVars, fileVars>>
    \/ NotFound
          /\ UNCHANGED <<batchVars, settingsVars, uploadVars, editorVars, galleryVars, responseVars, calcVars, serviceVars, sheetVars, folderVars, fileVars>>

SpecAuth == InitAuth /\ [][AuthNext]_vars

InitResponse ==
    /\ ResponseInit
    /\ BatchIdle
    /\ SettingsIdle
    /\ UploadIdle
    /\ EditorIdle
    /\ GalleryIdle
    /\ AuthIdle
    /\ CalcIdle
    /\ ServiceIdle
    /\ SheetIdle
    /\ FolderIdle
    /\ FilesIdle

ResponseNext ==
    \/ HandleResponse
          /\ UNCHANGED <<batchVars, settingsVars, uploadVars, editorVars, galleryVars, authVars, calcVars, serviceVars, sheetVars, folderVars, fileVars>>

SpecResponse == InitResponse /\ [][ResponseNext]_vars

InitCalc ==
    /\ CalcInit
    /\ BatchIdle
    /\ SettingsIdle
    /\ UploadIdle
    /\ EditorIdle
    /\ GalleryIdle
    /\ AuthIdle
    /\ ResponseIdle
    /\ ServiceIdle
    /\ SheetIdle
    /\ FolderIdle
    /\ FilesIdle

CalcNext ==
    \/ CalculateCost
          /\ UNCHANGED <<batchVars, settingsVars, uploadVars, editorVars, galleryVars, authVars, responseVars, serviceVars, sheetVars, folderVars, fileVars>>

SpecCalc == InitCalc /\ [][CalcNext]_vars

InitService ==
    /\ ServiceInit
    /\ BatchIdle
    /\ SettingsIdle
    /\ UploadIdle
    /\ EditorIdle
    /\ GalleryIdle
    /\ AuthIdle
    /\ ResponseIdle
    /\ CalcIdle
    /\ SheetIdle
    /\ FolderIdle
    /\ FilesIdle

ServiceNext ==
    \/ \E operation \in ServiceOperations, withFit \in BOOLEAN, chars \in PromptChars, images \in 1..MaxImages : CallService(operation, withFit, chars, images)
          /\ UNCHANGED <<batchVars, settingsVars, uploadVars, editorVars, galleryVars, authVars, responseVars, calcVars, sheetVars, folderVars, fileVars>>
    \/ RequestAnswered
          /\ UNCHANGED <<batchVars, settingsVars, uploadVars, editorVars, galleryVars, authVars, responseVars, calcVars, sheetVars, folderVars, fileVars>>
    \/ ResponseHandled
          /\ UNCHANGED <<batchVars, settingsVars, uploadVars, editorVars, galleryVars, authVars, responseVars, calcVars, sheetVars, folderVars, fileVars>>
    \/ logCost
          /\ UNCHANGED <<batchVars, settingsVars, uploadVars, editorVars, galleryVars, authVars, responseVars, calcVars, sheetVars, folderVars, fileVars>>
    \/ StepRejected
          /\ UNCHANGED <<batchVars, settingsVars, uploadVars, editorVars, galleryVars, authVars, responseVars, calcVars, sheetVars, folderVars, fileVars>>
    \/ CallReturns
          /\ UNCHANGED <<batchVars, settingsVars, uploadVars, editorVars, galleryVars, authVars, responseVars, calcVars, sheetVars, folderVars, fileVars>>

SpecService == InitService /\ [][ServiceNext]_vars

InitSheet ==
    /\ SheetInit
    /\ BatchIdle
    /\ SettingsIdle
    /\ UploadIdle
    /\ EditorIdle
    /\ GalleryIdle
    /\ AuthIdle
    /\ ResponseIdle
    /\ CalcIdle
    /\ ServiceIdle
    /\ FolderIdle
    /\ FilesIdle

SheetNext ==
    \/ \E rows \in Sheets : handleExcelUpload(rows)
          /\ UNCHANGED <<batchVars, settingsVars, uploadVars, editorVars, galleryVars, authVars, responseVars, calcVars, serviceVars, folderVars, fileVars>>
    \/ \E i \in DOMAIN sheetQueue, notes \in ManualNotes : handleClothingNotesChange(i, notes)
          /\ UNCHANGED <<batchVars, settingsVars, uploadVars, editorVars, galleryVars, authVars, responseVars, calcVars, serviceVars, folderVars, fileVars>>
    \/ \E i \in DOMAIN sheetQueue : ProcessItemNotes(i)
          /\ UNCHANGED <<batchVars, settingsVars, uploadVars, editorVars, galleryVars, authVars, responseVars, calcVars, serviceVars, folderVars, fileVars>>

SpecSheet == InitSheet /\ [][SheetNext]_vars

InitFolders ==
    /\ FolderInit
    /\ BatchIdle
    /\ SettingsIdle
    /\ UploadIdle
    /\ EditorIdle
    /\ GalleryIdle
    /\ AuthIdle
    /\ ResponseIdle
    /\ CalcIdle
    /\ ServiceIdle
    /\ SheetIdle
    /\ FilesIdle

FoldersNext ==
    \/ \E i \in DOMAIN lookups : StartLookup(i)
          /\ UNCHANGED <<batchVars, settingsVars, uploadVars, editorVars, galleryVars, authVars, responseVars, calcVars, serviceVars, sheetVars, fileVars>>
    \/ \E i \in DOMAIN lookups : FolderListed(i)
          /\ UNCHANGED <<batchVars, settingsVars, uploadVars, editorVars, galleryVars, authVars, responseVars, calcVars, serviceVars, sheetVars, fileVars>>
    \/ \E i \in DOMAIN lookups : FolderCreated(i)
          /\ UNCHANGED <<batchVars, settingsVars, uploadVars, editorVars, galleryVars, authVars, responseVars, calcVars, serviceVars, sheetVars, fileVars>>
    \/ \E i \in DOMAIN lookups : ResultsStored(i)
          /\ UNCHANGED <<batchVars, settingsVars, uploadVars, editorVars, galleryVars, authVars, responseVars, calcVars, serviceVars, sheetVars, fileVars>>
    \/ \E i \in DOMAIN lookups : LookupFails(i)
          /\ UNCHANGED <<batchVars, settingsVars, uploadVars, editorVars, galleryVars, authVars, responseVars, calcVars, serviceVars, sheetVars, fileVars>>

SpecFolders == InitFolders /\ [][FoldersNext]_vars

InitFiles ==
    /\ FilesInit
    /\ BatchIdle
    /\ SettingsIdle
    /\ UploadIdle
    /\ EditorIdle
    /\ GalleryIdle
    /\ AuthIdle
    /\ ResponseIdle
    /\ CalcIdle
    /\ ServiceIdle
    /\ SheetIdle
    /\ FolderIdle

FilesNext ==
    \/ \E user \in VerifiedUsers : uploadImageController(user)
          /\ UNCHANGED <<batchVars, settingsVars, uploadVars, editorVars, galleryVars, authVars, responseVars, calcVars, serviceVars, sheetVars, folderVars>>
    \/ \E user \in VerifiedUsers, userId \in UserIdParams, isAdmin \in IsAdminParams : getAllFilesController(user, userId, isAdmin)
          /\ UNCHANGED <<batchVars, settingsVars, uploadVars, editorVars, galleryVars, authVars, responseVars, calcVars, serviceVars, sheetVars, folderVars>>
    \/ \E user \in VerifiedUsers, userId \in UserIdParams, isAdmin \in IsAdminParams : getAllFilesFails(user, userId, isAdmin)
          /\ UNCHANGED <<batchVars, settingsVars, uploadVars, editorVars, galleryVars, authVars, responseVars, calcVars, serviceVars, sheetVars, folderVars>>

SpecFiles == InitFiles /\ [][FilesNext]_vars

BatchTypeOK ==
    /\ \A i \in DOMAIN queue : queue[i].status \in {"queued", "processing", "done", "error"}

(***************************************************************************)
(* C2: the gender and the age processItem uses for an item are the         *)
(* override of the item when one is set, otherwise the value of the        *)
(* spreadsheet row of the item when the row supplies one, otherwise the    *)
(* global default. The row supplies a gender when its first non-empty      *)
(* gender cell names one (male, masculino, female or feminino, in any      *)
(* letter case), and an age when it has a non-empty age cell; the global   *)
(* default of the age is the global age of the gender used.                *)
(***************************************************************************)
RowGender(meta) ==
    LET cell == ToLowerCase(FindMetaValue(meta, GenderKeys))
    IN CASE cell \in {"male", "masculino"} -> "male"
         [] cell \in {"female", "feminino"} -> "female"
         [] OTHER -> Undefined

RowAge(meta) == FindMetaValue(meta, AgeKeys)

Cascade(override, row, default) ==
    IF override \notin {Undefined, ""} THEN override
    ELSE IF row \notin {Undefined, ""} THEN row
    ELSE default

C2_SettingsCascade ==
    used # <<>> =>
        LET u == used[1]
        IN /\ u.gender = Cascade(u.item.modelGender, RowGender(metadata),
                                 u.global.modelGender)
           /\ u.age = Cascade(u.item.modelAge, RowAge(metadata),
                              u.global.modelAge[u.gender])

\* processItem has used the gender of the row, which differs from the global
\* one, and the age override of the item, although the row has an age too
C2_Witness ==
    /\ used # <<>>
    /\ used[1].item.modelGender = Undefined
    /\ RowGender(metadata) \notin {Undefined, used[1].global.modelGender}
    /\ used[1].gender = RowGender(metadata)
    /\ used[1].item.modelAge = "18"
    /\ RowAge(metadata) = "8-10"
    /\ used[1].age = "18"

(***************************************************************************)
(* Requests to the generation API that a processItem run has in flight.    *)
(* Counted are the enhancement requests (one per garment photo, issued     *)
(* together by Promise.all) and the model-generation request of the view   *)
(* being generated; the count is a lower bound of the requests in flight.  *)
(***************************************************************************)
InFlight(r) ==
    IF r.pc = "enhance" THEN Files(r.item)
    ELSE IF r.pc = "generate" THEN 1
    ELSE 0

RECURSIVE SumInFlight(_)
SumInFlight(rs) ==
    IF rs = {} THEN 0
    ELSE LET r == CHOOSE x \in rs : TRUE
         IN InFlight(r) + SumInFlight(rs \ {r})

\* the processItem runs that processQueue run b is awaiting
RunsOf(b) == {r \in runs : r.batch = b}

(***************************************************************************)
(* C1 as stated: during a processQueue run, the requests to the generation *)
(* API that are in flight never exceed CONCURRENCY_LIMIT.                  *)
(***************************************************************************)
C1_RequestsWithinLimit ==
    \A b \in 1..Len(batches) : SumInFlight(RunsOf(b)) <= CONCURRENCY_LIMIT

(***************************************************************************)
(* C3 as stated: after handleCancelProcessing or handleCancelSingleItem    *)
(* has cancelled a processItem run, that run never sets the status of its  *)
(* item to 'done' or 'error'.                                              *)
(***************************************************************************)
\* run r ends in this step and sets the status of its item
RunSetsStatus(r) ==
    /\ \A r2 \in runs' : ~(r2.item = r.item /\ r2.batch = r.batch)
    /\ queue'[r.item] # queue[r.item]
    /\ queue'[r.item].status \in {"done", "error"}

C3_CancelledRunSetsNoStatus ==
    [][\A r \in runs : r.cancelled => ~RunSetsStatus(r)]_vars

(***************************************************************************)
(* C4: after a handleFiles call, two files of the upload are in the same   *)
(* new queue item if and only if normalizeSku(getBaseName(name)) is the    *)
(* same for both, and every file of the upload is in exactly one new queue *)
(* item, once, and the new items have the status 'queued'.                 *)
(***************************************************************************)
\* the items the last handleFiles call added
UploadedItems == SubSeq(queue, uploaded.first + 1, Len(queue))

\* the new items that hold file a of the upload, with the position it has
HoldersOf(a) ==
    {<<g, k>> \in (1..Len(UploadedItems)) \X (1..MaxUploadFiles) :
        /\ k <= Len(UploadedItems[g].availableFiles)
        /\ UploadedItems[g].availableFiles[k] = a}

SameItem(a, b) ==
    \E ha \in HoldersOf(a), hb \in HoldersOf(b) : ha[1] = hb[1]

C4_GroupedBySku ==
    uploaded.files # <<>> =>
        LET files == uploaded.files
        IN /\ \A a \in 1..Len(files) : Cardinality(HoldersOf(a)) = 1
           /\ \A g \in 1..Len(UploadedItems) : UploadedItems[g].status = "queued"
           /\ \A a, b \in 1..Len(files) :
                  SameItem(a, b) <=>
                      normalizeSku(getBaseName(files[a])) =
                          normalizeSku(getBaseName(files[b]))

\* an upload of three files: two with different base names and the same SKU
\* share an item, the third, with another SKU, has an item of its own
C4_Witness ==
    /\ Len(uploaded.files) = 3
    /\ Len(UploadedItems) = 2
    /\ \E a, b, c \in 1..3 :
           /\ a # b
           /\ getBaseName(uploaded.files[a]) # getBaseName(uploaded.files[b])
           /\ SameItem(a, b)
           /\ ~SameItem(a, c)

(***************************************************************************)
(* C5: when the status of an item is 'done', every one of its result       *)
(* images has been stored by an addImageToStorage call that completed      *)
(* before the status was set.                                              *)
(***************************************************************************)
C5_DoneMeansStored ==
    \A i \in DOMAIN queue :
        queue[i].status = "done" =>
            /\ queue[i].resultFiles.n > 0
            /\ queue[i].resultFiles.stored = queue[i].resultFiles.n

\* an item with several result images is 'done'
C5_Witness ==
    \E i \in DOMAIN queue :
        /\ queue[i].status = "done"
        /\ queue[i].resultFiles.n = MaxViews
        /\ queue[i].resultFiles.stored = MaxViews

(***************************************************************************)
(* C6: in the masking canvas each pointer gesture (pointer down followed   *)
(* by pointer up or pointer leave) produces exactly one event: a mask      *)
(* update if the pointer moved more than 5 pixels away from the press      *)
(* position at some point during the gesture, otherwise a hotspot click at *)
(* the press position.                                                     *)
(***************************************************************************)
C6_OneEventPerGesture ==
    lastGesture.press # NullPoint =>
        /\ Len(lastGesture.events) = 1
        /\ lastGesture.moved => lastGesture.events[1].type = "maskUpdate"
        /\ ~lastGesture.moved =>
               lastGesture.events[1] = [type |-> "hotspotClick",
                                        pos |-> lastGesture.press]

(***************************************************************************)
(* C7: an edit selection is either a point hotspot or a freehand mask,     *)
(* never both: editHotspot and maskDataUrl are never both set once the     *)
(* state updates have settled; the hotspot set last stands with no mask,   *)
(* and the mask set last stands with no hotspot.                           *)
(***************************************************************************)
C7_HotspotOrMask ==
    /\ ~(selection.editHotspot # NullPoint /\ selection.maskDataUrl # "null")
    /\ selection.selected = "hotspot" =>
           selection.editHotspot # NullPoint /\ selection.maskDataUrl = "null"
    /\ selection.selected = "mask" =>
           selection.maskDataUrl # "null" /\ selection.editHotspot = NullPoint

\* a hotspot was set while a mask was set, and it replaced the mask
C7_Witness ==
    /\ selection.selected = "hotspot"
    /\ selection.replaced
    /\ selection.editHotspot # NullPoint

(***************************************************************************)
(* C8, as stated: each editor operation (retouch, crop and resize) that    *)
(* completes has made exactly one call to the external generation API.     *)
(***************************************************************************)
C8_OneCallPerOperation ==
    finished.outcome = "done" => finished.calls = 1

(***************************************************************************)
(* C8, amended: a retouch and a resize make exactly one call to the        *)
(* external generation API per user action that completes, and at most one *)
(* when the action fails; a crop makes none.                               *)
(***************************************************************************)
C8_OneCallPerGeneration ==
    /\ \A o \in ops : o.calls <= (IF o.kind = "crop" THEN 0 ELSE 1)
    /\ finished.kind = "crop" => finished.calls = 0
    /\ finished.kind \in {"retouch", "resize"} =>
           /\ finished.calls <= 1
           /\ finished.outcome = "done" => finished.calls = 1

\* a retouch has completed, after one call
C8_Witness ==
    /\ finished = [kind |-> "retouch", calls |-> 1, outcome |-> "done"]
    /\ history.length > 1

(***************************************************************************)
(* C9: deleting a gallery item that is not in the trash folder is a soft   *)
(* delete: after the delete the item still exists and is listed in the     *)
(* user's trash folder.                                                    *)
(***************************************************************************)
C9_DeleteMovesToTrash ==
    [][handleConfirmDelete(TRUE) /\ ~isTrashView =>
           \A d \in selectedItems \ {TrashDoc} :
               d \in Listed(gallery', trashFolderId)]_vars

(***************************************************************************)
(* C10: restoring an item from the trash folder puts it back outside the   *)
(* trash: after the restore the item exists and is listed in a folder that *)
(* is not the trash folder.                                                *)
(***************************************************************************)
C10_RestorePutsBack ==
    [][handleRestoreSelection(TRUE) =>
           \A d \in selectedItems :
               /\ gallery'[d].exists
               /\ gallery'[d].parentId # trashFolderId]_vars

(***************************************************************************)
(* C11: the controller of a protected route (gallery, generation, costs,   *)
(* user management) runs only for a request whose bearer token was         *)
(* verified, and it sees req.user with the uid and role of that token; a   *)
(* request with a missing or malformed Authorization header is answered    *)
(* 401 and one with an unverifiable token 403, and neither reaches the     *)
(* controller.                                                             *)
(***************************************************************************)
ProtectedControllers ==
    {"getCostsController", "createUserController", "getAllUsersController",
     "getGalleryItemsController", "deleteItemsController", "moveItemsController",
     "generateContentController", "describeClothingController"}

ProtectedRoutes ==
    AllRoutes \ {"GET /health", "POST /login", "POST /signup"}

\* the header reads 'Bearer ' followed by a token
IsBearerHeader(h) ==
    /\ h.present
    /\ Len(h.value) >= 7
    /\ SubSeq(h.value, 1, 7) = <<"B", "e", "a", "r", "e", "r", " ">>

\* the token that follows 'Bearer ' in the header; the tokens of the model
\* are one character long
HeaderToken(h) == SubSeq(h.value, 8, 8)

C11_ControllersBehindAuth ==
    /\ req.ran \in ProtectedControllers =>
          /\ IsBearerHeader(req.authHeader)
          /\ req.verified = <<HeaderToken(req.authHeader)>>
          /\ HeaderToken(req.authHeader) \in ValidTokens
          /\ req.seen = [set |-> TRUE,
                         uid |-> DecodedToken(HeaderToken(req.authHeader)).uid,
                         role |-> DecodedToken(HeaderToken(req.authHeader)).role]
    /\ (req.route \in ProtectedRoutes /\ req.status # 0) =>
          /\ ~IsBearerHeader(req.authHeader) =>
                req.status = 401 /\ req.ran = "none"
          /\ (IsBearerHeader(req.authHeader) /\ req.verified = <<>>) =>
                req.status = 403 /\ req.ran = "none"
    /\ req.sentBy = "authMiddleware" => req.ran = "none" /\ req.status \in {401, 403}

\* a gallery controller has run for a verified request
C11_Witness ==
    /\ req.ran = "deleteItemsController"
    /\ req.seen = [set |-> TRUE, uid |-> "uid-u", role |-> "user"]
    /\ req.status = 200

(***************************************************************************)
(* C12: handleApiResponse turns every provider response into either a data *)
(* URL or a thrown error, in this order: a prompt block reason gives an    *)
(* error; otherwise the first inline image part of the first candidate     *)
(* gives 'data:<mimeType>;base64,<data>'; otherwise an error is thrown.    *)
(***************************************************************************)
Blocked(r) ==
    r.promptFeedback.defined /\ r.promptFeedback.blockReason \notin {Undefined, ""}

\* the parts of the first candidate
FirstParts(r) ==
    IF r.candidates.defined /\ Len(r.candidates.list) >= 1
       /\ r.candidates.list[1].parts.defined
    THEN r.candidates.list[1].parts.list
    ELSE <<>>

InlineAt(r) == {i \in 1..Len(FirstParts(r)) : FirstParts(r)[i].inlineData.defined}

C12_DataUrlOrError ==
    apiResult # NoApiResult =>
        /\ apiResult.kind \in {"dataUrl", "error"}
        /\ Blocked(response) => apiResult.kind = "error"
        /\ (~Blocked(response) /\ InlineAt(response) # {}) =>
              \E i \in InlineAt(response) :
                  /\ \A j \in InlineAt(response) : i <= j
                  /\ apiResult = [kind |-> "dataUrl",
                                  value |-> <<"data:",
                                              FirstParts(response)[i].inlineData.mimeType,
                                              ";base64,",
                                              FirstParts(response)[i].inlineData.data>>]
        /\ (~Blocked(response) /\ InlineAt(response) = {}) => apiResult.kind = "error"

\* a data URL was made of the first of two different image parts, for a
\* response that has a second candidate and an empty block reason
C12_Witness ==
    /\ apiResult.kind = "dataUrl"
    /\ Cardinality(InlineAt(response)) = 2
    /\ FirstParts(response)[1] # FirstParts(response)[2]
    /\ Len(response.candidates.list) = 2
    /\ response.promptFeedback.defined

(***************************************************************************)
(* C14: calculateCost depends only on the counts of the request shape: it  *)
(* returns max(0.00001, inputChars x 0.35/1,000,000 + outputChars x        *)
(* 0.70/1,000,000 + inputImages x 0.000125 + outputImages x 0.020)         *)
(* dollars, whatever the operation type; an absent count is zero.          *)
(***************************************************************************)
CountOf(c) == IF c.defined THEN c.n ELSE 0

\* the sum of the claim, in billionths of a dollar
ShapeCost(p) ==
    CountOf(p.inputChars) * 350 + CountOf(p.outputChars) * 700
        + CountOf(p.inputImages) * 125000 + CountOf(p.outputImages) * 20000000

C14_CostOfShape ==
    cost # <<>> =>
        cost[1] = (IF ShapeCost(params) < 10000 THEN 10000 ELSE ShapeCost(params))

\* a cost below the minimum charge was computed, for text only
C14_Witness ==
    /\ cost = <<10000>>
    /\ params.inputChars = [defined |-> TRUE, n |-> 28]
    /\ params.operation = "training"

(***************************************************************************)
(* C13: each generation operation that succeeds (enhance, retouch, expand, *)
(* model generation, description, training) records exactly one cost log   *)
(* entry.                                                                  *)
(***************************************************************************)
C13_OneCostLogPerOperation ==
    call.outcome = "done" => call.logged = 1

(***************************************************************************)
(* C15 as stated: no queue item is ever being processed by two processItem *)
(* runs at the same time, also when the user cancels a batch or an item    *)
(* and starts processing again while the earlier run is still in flight.   *)
(***************************************************************************)
C15_OneRunPerItem ==
    \A r1, r2 \in runs : r1.item = r2.item => r1 = r2

(***************************************************************************)
(* C16 as stated: after handleCancelProcessing has cancelled a processQueue *)
(* run, that run starts no further chunk: it calls processItem for no item *)
(* that had not begun processing when the batch was cancelled.             *)
(***************************************************************************)
C16_CancelledBatchStartsNoItem ==
    [][\A b \in 1..Len(batches) :
          batches[b].cancelled =>
              \A r \in runs' : r.batch = b => \E r0 \in runs : r0.batch = b /\ r0.item = r.item]_vars

(***************************************************************************)
(* C17 as stated: every batch run that processQueue starts eventually ends *)
(* with isProcessing false, whether all its items succeed, some fail, the  *)
(* token refresh at its start fails, or the user cancels.                  *)
(***************************************************************************)
\* processQueue run b has returned or has rejected
BatchEnded(b) ==
    /\ Len(batches) >= b
    /\ batches[b].pc \in {"done", "failed"}

\* processQueue run b is at one of its awaits
BatchRunning(b) ==
    /\ Len(batches) >= b
    /\ batches[b].pc \in {"token", "await"}

C17_BatchEndsNotProcessing ==
    \A b \in 1..MaxBatches :
        BatchRunning(b) ~> (BatchEnded(b) /\ ~isProcessing)

(***************************************************************************)
(* C18 as stated: when a processQueue run finishes and neither the batch   *)
(* nor any item was cancelled (no 'Cancelar' click during the run, and no  *)
(* cancellation of an item pending at its start), every item that was     *)
(* 'queued' or 'error' when the run started is 'done' or 'error'; none of  *)
(* them is left 'queued' or 'processing'.                                  *)
(***************************************************************************)
\* processQueue run b returns in this step
BatchFinishes(b) ==
    /\ BatchRunning(b)
    /\ batches'[b].pc = "done"

\* the items of run b: the 'queued' and 'error' items of the queue it started from
ItemsOf(b) == {batches[b].items[j] : j \in 1..Len(batches[b].items)}

C18_FinishedBatchLeavesNoItem ==
    [][\A b \in 1..Len(batches) :
          (BatchFinishes(b) /\ ~batches[b].cancelled /\ ~batches[b].itemCancelled) =>
              \A i \in ItemsOf(b) : queue'[i].status \in {"done", "error"}]_vars

(***************************************************************************)
(* C19 as stated: starting a batch changes the queue only by resetting     *)
(* 'error' items to 'queued' (and by starting the items of its first       *)
(* chunk): 'done' items keep their status and results, and no item is      *)
(* added, removed or reverted, also when an item changed while the token   *)
(* refresh at the start of the batch was pending.                          *)
(***************************************************************************)
\* the token refresh of processQueue run b resolves in this step
BatchResumes(b) ==
    /\ batches[b].pc = "token"
    /\ batches'[b].pc \in {"await", "done"}

C19_StartOnlyResetsErrors ==
    [][\A b \in 1..Len(batches) :
          BatchResumes(b) =>
              /\ DOMAIN queue' = DOMAIN queue
              /\ \A i \in DOMAIN queue :
                    \/ queue'[i] = queue[i]
                    \/ /\ queue[i].status \in {"error", "queued"}
                       /\ queue'[i].status \in {"queued", "processing"}
                       /\ queue'[i].resultFiles = queue[i].resultFiles]_vars

(***************************************************************************)
(* C20: a failure while one item is processed marks only that item 'error',*)
(* with the message of the error, and neither stops nor fails the          *)
(* processing of the other items: their queue entries and their processItem*)
(* runs are left as they are and the processQueue runs go on.              *)
(***************************************************************************)
\* the catch block of run r sets its item 'error' in this step
RunFails(r) ==
    /\ r \notin runs'
    /\ queue'[r.item] # queue[r.item]
    /\ queue'[r.item].status = "error"

\* the texts the catch block can record
ErrorMessages ==
    {"Token de autenticacao nao disponivel.",
     "Nenhuma vista de geracao foi selecionada",
     "An unknown error occurred."}

C20_FailureMarksOnlyItsItem ==
    [][\A r \in runs :
          RunFails(r) =>
              /\ queue'[r.item].error \in ErrorMessages
              /\ queue'[r.item].resultFiles = queue[r.item].resultFiles
              /\ \A i \in DOMAIN queue \ {r.item} : queue'[i] = queue[i]
              /\ runs' = runs \ {r}
              /\ batches' = batches
              /\ isProcessing' = isProcessing]_vars

\* item 1 failed in the first chunk of a batch of four items, item 2 of the
\* same chunk is 'done' and the batch has started item 4 in its second chunk
C20_Witness ==
    /\ Len(queue) = 4
    /\ Len(batches) = 1
    /\ singles = 0
    /\ queue[1].status = "error"
    /\ queue[1].error = "An unknown error occurred."
    /\ queue[2].status = "done"
    /\ \E r \in runs : r.batch = 1 /\ r.item = 4

(***************************************************************************)
(* C21 as stated: after a spreadsheet is loaded every queue item is        *)
(* re-evaluated against it. An item whose normalised SKU has a row has     *)
(* that row as its metadata and excelMatch true; an item whose normalised  *)
(* SKU has no row has excelMatch false and no spreadsheet metadata, and    *)
(* processItem puts none into its prompts.                                 *)
(***************************************************************************)
\* the normalised SKU of item i has a row in the spreadsheet loaded last
HasRow(i) == normalizeSku(sheetQueue[i].baseName) \in DOMAIN excelData.map

C21_ReEvaluatedAgainstSheet ==
    excelData.loaded =>
        /\ \A i \in DOMAIN sheetQueue :
              IF HasRow(i)
              THEN /\ sheetQueue[i].excelMatch
                   /\ sheetQueue[i].metadata =
                          excelData.map[normalizeSku(sheetQueue[i].baseName)]
              ELSE /\ ~sheetQueue[i].excelMatch
                   /\ ~sheetQueue[i].metadata.defined
        /\ (generation.item # 0 /\ ~HasRow(generation.item)) =>
               ~generation.metadata.defined

(***************************************************************************)
(* C22 as stated: re-evaluating the queue against a spreadsheet keeps the  *)
(* manual clothing notes of each item (up to white space at their ends),   *)
(* leaves at most one '[Planilha]:' line, which is the one taken from the  *)
(* spreadsheet just loaded, and loading the same spreadsheet once more     *)
(* leaves the clothing notes as they are.                                  *)
(***************************************************************************)
RECURSIVE FilterPlanilha(_)
\* the lines that start with '[Planilha]:'
FilterPlanilha(lines) ==
    IF lines = <<>> THEN <<>>
    ELSE (IF StartsWithPlanilha(Head(lines)) THEN <<Head(lines)>> ELSE <<>>)
         \o FilterPlanilha(Tail(lines))

PlanilhaLines(clothingNotes) == FilterPlanilha(SplitLines(clothingNotes, <<>>))

\* the first line of the note the spreadsheet has for an item with this row
SheetLine(rowData) ==
    SplitLines(<<PlanilhaPrefix, " ">> \o FindValue(ClothingNoteKeys, rowData).text,
               <<>>)[1]

\* the spreadsheet has a clothing note for an item with this row
HasSheetNote(rowData) ==
    rowData.defined /\ FindValue(ClothingNoteKeys, rowData).present

\* a spreadsheet is loaded in this step
SheetLoaded == loads' = loads + 1

KeepsManualNotes(i) ==
    ManualNotesOf(sheetQueue'[i].clothingNotes) =
        ManualNotesOf(sheetQueue[i].clothingNotes)

OnlyLatestSheetLine(i) ==
    LET lines == PlanilhaLines(sheetQueue'[i].clothingNotes)
        rowData == MapGet(excelData'.map, normalizeSku(sheetQueue'[i].baseName))
    IN /\ Len(lines) <= 1
       /\ Len(lines) = 1 => (HasSheetNote(rowData) /\ lines[1] = SheetLine(rowData))

SameSheetAgain(i) ==
    ReEvaluated(sheetQueue'[i], excelData'.map).clothingNotes =
        sheetQueue'[i].clothingNotes

C22_NotesAfterReEvaluation ==
    [][SheetLoaded =>
          \A i \in DOMAIN sheetQueue :
              KeepsManualNotes(i) /\ OnlyLatestSheetLine(i) /\ SameSheetAgain(i)]_vars

(***************************************************************************)
(* C23: after a batch in which several items resolve to the same brand,    *)
(* exactly one folder with that brand name exists under root for the user  *)
(* and the results of all those items are stored in it.                    *)
(***************************************************************************)
\* every run of the batch has returned
FolderBatchOver == \A i \in DOMAIN lookups : lookups[i].pc \in {"done", "error"}

\* the items with stored results that resolve to the brand of item i
SameBrand(i) ==
    {j \in DOMAIN lookups :
        /\ lookups[j].pc = "done"
        /\ Trim(lookups[j].brand) = Trim(lookups[i].brand)}

FoldersNamed(name) == {f \in folderDocs : f.name = name}

C23_OneFolderPerBrand ==
    FolderBatchOver =>
        \A i \in DOMAIN lookups :
            (/\ lookups[i].pc = "done"
             /\ Trim(lookups[i].brand) # <<>>
             /\ Cardinality(SameBrand(i)) >= 2)
            => /\ Cardinality(FoldersNamed(Trim(lookups[i].brand))) = 1
               /\ \A j \in SameBrand(i) :
                      \E f \in FoldersNamed(Trim(lookups[i].brand)) :
                          storedIn[j] = <<f.id>>

(***************************************************************************)
(* C24: the all-files listing returns another user's files only when the   *)
(* authenticated requester's verified role is admin; for every other       *)
(* requester it returns only the requester's own files.                    *)
(***************************************************************************)
\* the files in the answer that belong to another user than the requester
ForeignFiles == {f \in listing.files : f.uid # listing.user.uid}

C24_ForeignFilesOnlyForAdmin ==
    listing.status = 200 =>
        /\ ForeignFiles # {} => listing.user.role = "admin"
        /\ listing.user.role # "admin" =>
               listing.files \subseteq {f \in fileDocs : f.uid = listing.user.uid}

====
